---------------------------- MODULE Spec2Model ----------------------------
(***************************************************************************)
(* CareerPath-AI: the deterministic scoring engine of utils/ats_scorer.py  *)
(* (class ATSScorer), and around it the resume parser, the AI service, the *)
(* database manager and the page handlers of app.py.                       *)
(*                                                                         *)
(* Text is modelled at the character level: a Python str is a sequence of  *)
(* one-character strings, and every regular expression of the source is    *)
(* translated into a scanner over that sequence.  Python floats are        *)
(* modelled as exact rationals [num, den] in lowest terms; round() is      *)
(* Python 3's round-half-to-even.                                          *)
(***************************************************************************)
EXTENDS Integers, Sequences, FiniteSets, TLC

VARIABLES
  resume_text,      \* str: the resume's plain text
  skills,           \* List[str]: the skill labels
  job_description,  \* Optional[str]: None, or a str (possibly empty)
  hash_seed,        \* the process's string-hash seed: fixes the iteration order of a set of str
  called,           \* which public method of ATSScorer has returned ("none" before the call)
  analyzed,         \* <<>>, or what the four analyzers returned to calculate_ats_score
  ret,              \* <<>> before the call, <<value returned>> after it
  files,            \* the files at hand for upload, each with what parse_resume and
                    \* calculate_ats_score make of it in this process
  session_state,    \* st.session_state of one UI session (app.py:44-59)
  db,               \* the DatabaseManager, its tables and the session in use
  ai,               \* the AIService: its client and the service calls made
  ui,               \* what the page being run has done: scorer calls, messages shown
  pc,               \* where the running handler or call stands ("idle" between them)
  running           \* the analyzer calls of the requests running side by side

vars ==
  <<resume_text, skills, job_description, hash_seed, called, analyzed, ret,
    files, session_state, db, ai, ui, pc, running>>

\* The state of the application around the scorer.
App == <<files, session_state, db, ai, ui, pc, running>>

-----------------------------------------------------------------------------
(* Characters and their classes, as Python's re and str see them.          *)

LowerAZ == <<"a","b","c","d","e","f","g","h","i","j","k","l","m",
             "n","o","p","q","r","s","t","u","v","w","x","y","z">>
UpperAZ == <<"A","B","C","D","E","F","G","H","I","J","K","L","M",
             "N","O","P","Q","R","S","T","U","V","W","X","Y","Z">>

Range(s) == {s[i] : i \in DOMAIN s}

Lowercase == Range(LowerAZ)
Uppercase == Range(UpperAZ)
Digit == {"0","1","2","3","4","5","6","7","8","9"}

\* Non-ASCII characters are written by their code point.  U+00E2 (a with
\* circumflex) is a letter; U+20AC (euro), U+00A2 (cent) and U+2022 (bullet) are symbols.
NonAsciiLetter == {"U+00E2"}
NonAsciiSymbol == {"U+20AC", "U+00A2", "U+2022"}

\* \w of a str pattern: letters, digits and the underscore.
WordChar == Lowercase \cup Uppercase \cup Digit \cup {"_"} \cup NonAsciiLetter
\* \s, and the separators of str.split().
Whitespace == {" ", "\n", "\t", "\r"}

\* str.lower(), one character.
lower_char(c) ==
  IF c \in Uppercase THEN LowerAZ[CHOOSE i \in DOMAIN UpperAZ : UpperAZ[i] = c] ELSE c

\* str.lower()
lower(s) == SubSeq([i \in DOMAIN s |-> lower_char(s[i])], 1, Len(s))

\* The character at 1-based position i of t, or "" outside the string.
At(t, i) == IF i \in DOMAIN t THEN t[i] ELSE ""

\* \b holds between positions i-1 and i.
WordBoundary(t, i) == (At(t, i - 1) \in WordChar) # (At(t, i) \in WordChar)

\* The literal w occurs in t starting at position i.
LiteralAt(t, i, w) == \A k \in DOMAIN w : At(t, i + k - 1) = w[k]

\* `w in t` for two str: plain substring test.
Contains(t, w) == \E i \in 1..(Len(t) + 1) : LiteralAt(t, i, w)

\* re.search(r'\b' + w + r'\b', t) is not None
SearchWholeWord(t, w) ==
  \E i \in DOMAIN t :
    /\ LiteralAt(t, i, w)
    /\ WordBoundary(t, i)
    /\ WordBoundary(t, i + Len(w))

\* The positions where a maximal run of characters of class C starts, and the
\* end of the run that starts at i.
RunStarts(t, C) == {i \in DOMAIN t : t[i] \in C /\ At(t, i - 1) \notin C}
RunEnd(t, C, i) ==
  CHOOSE j \in i..Len(t) : (\A k \in i..j : t[k] \in C) /\ At(t, j + 1) \notin C

\* The k-th smallest element of a finite set of integers.
Nth(S, k) == CHOOSE x \in S : Cardinality({y \in S : y < x}) = k - 1

\* A finite set of integers as the ascending sequence of its elements.
Ascending(S) == [k \in 1..Cardinality(S) |-> Nth(S, k)]

\* re.findall(r'\b[a-z]{3,}\b', t): the matches in text order.  A match starts at a
\* word boundary on a letter a-z, [a-z]{3,} takes the whole run of a-z that starts
\* there (giving back letters cannot produce a \b between two letters), and the
\* run has to end at a word boundary.
FindAllWords(t) ==
  LET starts == {i \in RunStarts(t, Lowercase) :
                   /\ WordBoundary(t, i)
                   /\ RunEnd(t, Lowercase, i) - i + 1 >= 3
                   /\ WordBoundary(t, RunEnd(t, Lowercase, i) + 1)}
      order == Ascending(starts)
  IN  [k \in DOMAIN order |-> SubSeq(t, order[k], RunEnd(t, Lowercase, order[k]))]

\* str.split(): the maximal runs of non-whitespace characters, in order.
split(t) ==
  LET NonSpace == {t[i] : i \in DOMAIN t} \ Whitespace
      order == Ascending(RunStarts(t, NonSpace))
  IN  [k \in DOMAIN order |-> SubSeq(t, order[k], RunEnd(t, NonSpace, order[k]))]

-----------------------------------------------------------------------------
(* Python floats as exact rationals.                                       *)

RECURSIVE GCD(_, _)
GCD(a, b) == IF b = 0 THEN a ELSE GCD(b, a % b)

Abs(n) == IF n < 0 THEN -n ELSE n

\* n / d in lowest terms, d > 0.
Rat(n, d) ==
  LET g == GCD(Abs(n), d)
  IN  [num |-> n \div g, den |-> d \div g]

Whole(n) == Rat(n, 1)
RAdd(x, y) == Rat(x.num * y.den + y.num * x.den, x.den * y.den)
RSub(x, y) == Rat(x.num * y.den - y.num * x.den, x.den * y.den)
RMul(x, y) == Rat(x.num * y.num, x.den * y.den)
RLe(x, y) == x.num * y.den <= y.num * x.den
RLt(x, y) == x.num * y.den < y.num * x.den
RMin(x, y) == IF RLe(x, y) THEN x ELSE y
RMax(x, y) == IF RLe(x, y) THEN y ELSE x

\* round(x) of a float: the nearest integer, a tie going to the even one.
Round(x) ==
  LET fl == x.num \div x.den
      twice == 2 * (x.num % x.den)
  IN  IF twice < x.den THEN fl
      ELSE IF twice > x.den THEN fl + 1
      ELSE IF fl % 2 = 0 THEN fl ELSE fl + 1

\* round(x, 1): the nearest multiple of 0.1.
Round1(x) == Rat(Round(RMul(x, Whole(10))), 10)

\* list[:n]
Take(s, n) == SubSeq(s, 1, IF Len(s) < n THEN Len(s) ELSE n)

\* [x for x in s[lo..hi] if Keep(x)], halving the range.
RECURSIVE SelectFrom(_, _, _, _)
SelectFrom(s, Keep, lo, hi) ==
  IF lo > hi THEN <<>>
  ELSE IF lo = hi THEN (IF s[lo] \in Keep THEN <<s[lo]>> ELSE <<>>)
  ELSE LET mid == (lo + hi) \div 2
       IN  SelectFrom(s, Keep, lo, mid) \o SelectFrom(s, Keep, mid + 1, hi)

\* [x for x in s if Keep(x)]
Filter(s, Keep) == SelectFrom(s, Keep, 1, Len(s))

\* sep.join(words[lo..hi]), halving the range.
RECURSIVE JoinRange(_, _, _, _)
JoinRange(words, sep, lo, hi) ==
  IF lo > hi THEN <<>>
  ELSE IF lo = hi THEN words[lo]
  ELSE LET mid == (lo + hi) \div 2
       IN  JoinRange(words, sep, lo, mid) \o sep \o JoinRange(words, sep, mid + 1, hi)

Join(words, sep) == JoinRange(words, sep, 1, Len(words))

\* str.upper(), and a word with its first letter in upper case.
upper(s) ==
  [i \in DOMAIN s |->
     IF s[i] \in Lowercase THEN UpperAZ[CHOOSE j \in DOMAIN LowerAZ : LowerAZ[j] = s[i]]
     ELSE s[i]]
Capitalize(w) == upper(SubSeq(w, 1, 1)) \o SubSeq(w, 2, Len(w))
EachCapitalized(words) == [k \in DOMAIN words |-> Capitalize(words[k])]

First(s, n) == SubSeq(s, 1, n)
Space == <<" ">>

-----------------------------------------------------------------------------
(* Static configuration of ATSScorer.                                      *)

ACTION_VERBS ==
  <<
    <<"a","c","h","i","e","v","e","d">>, <<"a","c","c","o","m","p","l","i","s","h","e","d">>,
    <<"a","d","m","i","n","i","s","t","e","r","e","d">>, <<"a","n","a","l","y","z","e","d">>,
    <<"b","u","i","l","t">>, <<"c","o","l","l","a","b","o","r","a","t","e","d">>,
    <<"c","o","n","t","r","i","b","u","t","e","d">>,
    <<"c","o","o","r","d","i","n","a","t","e","d">>, <<"c","r","e","a","t","e","d">>,
    <<"d","e","l","i","v","e","r","e","d">>, <<"d","e","s","i","g","n","e","d">>,
    <<"d","e","v","e","l","o","p","e","d">>, <<"d","i","r","e","c","t","e","d">>,
    <<"e","n","h","a","n","c","e","d">>, <<"e","s","t","a","b","l","i","s","h","e","d">>,
    <<"e","x","e","c","u","t","e","d">>, <<"g","e","n","e","r","a","t","e","d">>,
    <<"i","m","p","l","e","m","e","n","t","e","d">>, <<"i","m","p","r","o","v","e","d">>,
    <<"i","n","c","r","e","a","s","e","d">>, <<"i","n","i","t","i","a","t","e","d">>,
    <<"l","a","u","n","c","h","e","d">>, <<"l","e","d">>, <<"m","a","n","a","g","e","d">>,
    <<"o","p","t","i","m","i","z","e","d">>, <<"o","r","g","a","n","i","z","e","d">>,
    <<"o","v","e","r","s","a","w">>, <<"p","l","a","n","n","e","d">>,
    <<"p","r","o","d","u","c","e","d">>, <<"r","e","d","u","c","e","d">>,
    <<"r","e","s","o","l","v","e","d">>, <<"s","t","r","e","a","m","l","i","n","e","d">>,
    <<"s","u","p","e","r","v","i","s","e","d">>, <<"t","r","a","i","n","e","d">>,
    <<"t","r","a","n","s","f","o","r","m","e","d">>
  >>

IMPORTANT_SECTIONS ==
  <<
    <<"e","x","p","e","r","i","e","n","c","e">>, <<"e","d","u","c","a","t","i","o","n">>,
    <<"s","k","i","l","l","s">>, <<"s","u","m","m","a","r","y">>,
    <<"o","b","j","e","c","t","i","v","e">>
  >>

KeywordCommonWordList ==
  <<
    <<"t","h","e">>, <<"a">>, <<"a","n">>, <<"a","n","d">>, <<"o","r">>, <<"b","u","t">>,
    <<"i","n">>, <<"o","n">>, <<"a","t">>, <<"t","o">>, <<"f","o","r">>, <<"o","f">>,
    <<"w","i","t","h">>, <<"b","y">>, <<"i","s">>, <<"a","r","e">>, <<"w","a","s">>,
    <<"w","e","r","e">>, <<"b","e">>, <<"b","e","e","n">>, <<"b","e","i","n","g">>,
    <<"h","a","v","e">>, <<"h","a","s">>, <<"h","a","d">>, <<"d","o">>, <<"d","o","e","s">>,
    <<"d","i","d">>, <<"w","i","l","l">>, <<"w","o","u","l","d">>, <<"c","o","u","l","d">>,
    <<"s","h","o","u","l","d">>, <<"m","a","y">>, <<"m","i","g","h","t">>, <<"m","u","s","t">>,
    <<"s","h","a","l","l">>, <<"c","a","n">>, <<"n","e","e","d">>, <<"d","a","r","e">>,
    <<"o","u","g","h","t">>, <<"u","s","e","d">>, <<"t","h","i","s">>, <<"t","h","a","t">>,
    <<"t","h","e","s","e">>, <<"t","h","o","s","e">>, <<"w","e">>, <<"y","o","u">>,
    <<"t","h","e","y">>, <<"i","t">>, <<"i">>, <<"h","e">>, <<"s","h","e">>, <<"w","h","o">>,
    <<"w","h","a","t">>, <<"w","h","i","c","h">>, <<"w","h","e","n">>, <<"w","h","e","r","e">>,
    <<"w","h","y">>, <<"h","o","w">>, <<"a","l","l">>, <<"e","a","c","h">>,
    <<"e","v","e","r","y">>, <<"b","o","t","h">>, <<"f","e","w">>, <<"m","o","r","e">>,
    <<"m","o","s","t">>, <<"o","t","h","e","r">>, <<"s","o","m","e">>, <<"s","u","c","h">>,
    <<"n","o">>, <<"n","o","r">>, <<"n","o","t">>, <<"o","n","l","y">>, <<"o","w","n">>,
    <<"s","a","m","e">>, <<"s","o">>, <<"t","h","a","n">>, <<"t","o","o">>,
    <<"v","e","r","y">>, <<"j","u","s","t">>, <<"a","l","s","o">>, <<"a","s">>, <<"i","f">>,
    <<"t","h","e","n">>, <<"b","e","c","a","u","s","e">>, <<"w","h","i","l","e">>,
    <<"a","l","t","h","o","u","g","h">>, <<"t","h","o","u","g","h">>, <<"a","f","t","e","r">>,
    <<"b","e","f","o","r","e">>, <<"s","i","n","c","e">>, <<"u","n","t","i","l">>,
    <<"u","n","l","e","s","s">>, <<"a","b","o","u","t">>, <<"a","b","o","v","e">>,
    <<"a","c","r","o","s","s">>, <<"a","g","a","i","n","s","t">>, <<"a","l","o","n","g">>,
    <<"a","m","o","n","g">>, <<"a","r","o","u","n","d">>, <<"b","e","h","i","n","d">>,
    <<"b","e","l","o","w">>, <<"b","e","n","e","a","t","h">>, <<"b","e","s","i","d","e">>,
    <<"b","e","t","w","e","e","n">>, <<"b","e","y","o","n","d">>, <<"d","u","r","i","n","g">>,
    <<"e","x","c","e","p","t">>, <<"i","n","s","i","d","e">>, <<"i","n","t","o">>,
    <<"n","e","a","r">>, <<"o","f","f">>, <<"o","n","t","o">>, <<"o","u","t">>,
    <<"o","u","t","s","i","d","e">>, <<"o","v","e","r">>, <<"p","a","s","t">>,
    <<"t","h","r","o","u","g","h">>, <<"t","h","r","o","u","g","h","o","u","t">>,
    <<"t","o","w","a","r","d">>, <<"u","n","d","e","r">>,
    <<"u","n","d","e","r","n","e","a","t","h">>, <<"u","p">>, <<"u","p","o","n">>,
    <<"w","i","t","h","i","n">>, <<"w","i","t","h","o","u","t">>
  >>

KeywordCommonWords == Range(KeywordCommonWordList)

MatchCommonWordList ==
  <<
    <<"t","h","e">>, <<"a">>, <<"a","n">>, <<"a","n","d">>, <<"o","r">>, <<"b","u","t">>,
    <<"i","n">>, <<"o","n">>, <<"a","t">>, <<"t","o">>, <<"f","o","r">>, <<"o","f">>,
    <<"w","i","t","h">>, <<"b","y">>, <<"i","s">>, <<"a","r","e">>, <<"w","a","s">>,
    <<"w","e","r","e">>, <<"b","e">>, <<"b","e","e","n">>, <<"h","a","v","e">>,
    <<"h","a","s">>, <<"h","a","d">>, <<"w","i","l","l">>, <<"w","o","u","l","d">>,
    <<"s","h","o","u","l","d">>, <<"m","u","s","t">>, <<"c","a","n">>, <<"t","h","i","s">>,
    <<"t","h","a","t">>, <<"w","e">>, <<"y","o","u">>, <<"t","h","e","y">>, <<"i","t">>,
    <<"y","o","u","r">>, <<"o","u","r">>, <<"t","h","e","i","r">>, <<"w","h","o">>,
    <<"w","h","a","t">>, <<"w","h","i","c","h">>, <<"w","h","e","n">>, <<"w","h","e","r","e">>,
    <<"a","s">>, <<"i","f">>, <<"a","b","o","u","t">>, <<"i","n","t","o">>,
    <<"t","h","r","o","u","g","h">>, <<"d","u","r","i","n","g">>, <<"b","e","f","o","r","e">>,
    <<"a","f","t","e","r">>, <<"a","b","o","v","e">>, <<"b","e","l","o","w">>,
    <<"b","e","t","w","e","e","n">>, <<"u","n","d","e","r">>, <<"a","g","a","i","n">>,
    <<"f","u","r","t","h","e","r">>, <<"t","h","e","n">>, <<"o","n","c","e">>,
    <<"h","e","r","e">>, <<"t","h","e","r","e">>, <<"a","l","l">>, <<"e","a","c","h">>,
    <<"f","e","w">>, <<"m","o","r","e">>, <<"m","o","s","t">>, <<"o","t","h","e","r">>,
    <<"s","o","m","e">>, <<"s","u","c","h">>, <<"n","o">>, <<"n","o","t">>,
    <<"o","n","l","y">>, <<"s","a","m","e">>, <<"t","h","a","n">>, <<"t","o","o">>,
    <<"v","e","r","y">>, <<"j","u","s","t">>, <<"a","l","s","o">>, <<"w","o","r","k">>,
    <<"w","o","r","k","i","n","g">>, <<"j","o","b">>, <<"p","o","s","i","t","i","o","n">>,
    <<"r","o","l","e">>, <<"l","o","o","k","i","n","g">>, <<"s","e","e","k","i","n","g">>,
    <<"r","e","q","u","i","r","e","d">>, <<"r","e","q","u","i","r","e","m","e","n","t","s">>,
    <<"q","u","a","l","i","f","i","c","a","t","i","o","n","s">>,
    <<"r","e","s","p","o","n","s","i","b","i","l","i","t","i","e","s">>,
    <<"e","x","p","e","r","i","e","n","c","e">>, <<"y","e","a","r","s">>,
    <<"a","b","i","l","i","t","y">>, <<"s","k","i","l","l","s">>, <<"s","t","r","o","n","g">>,
    <<"e","x","c","e","l","l","e","n","t">>, <<"p","r","e","f","e","r","r","e","d">>,
    <<"i","n","c","l","u","d","i","n","g">>, <<"e","t","c">>, <<"p","l","u","s">>,
    <<"b","o","n","u","s">>
  >>

MatchCommonWords == Range(MatchCommonWordList)

skill_indicators ==
  <<
    <<"p","y","t","h","o","n">>, <<"j","a","v","a">>,
    <<"j","a","v","a","s","c","r","i","p","t">>, <<"r","e","a","c","t">>,
    <<"a","n","g","u","l","a","r">>, <<"n","o","d","e">>, <<"s","q","l">>, <<"a","w","s">>,
    <<"a","z","u","r","e">>, <<"d","o","c","k","e","r">>,
    <<"k","u","b","e","r","n","e","t","e","s">>,
    <<"m","a","c","h","i","n","e"," ","l","e","a","r","n","i","n","g">>, <<"d","a","t","a">>,
    <<"a","n","a","l","y","s","i","s">>, <<"e","x","c","e","l">>,
    <<"c","o","m","m","u","n","i","c","a","t","i","o","n">>,
    <<"l","e","a","d","e","r","s","h","i","p">>, <<"a","g","i","l","e">>,
    <<"s","c","r","u","m">>, <<"g","i","t">>, <<"a","p","i">>, <<"r","e","s","t">>,
    <<"c","l","o","u","d">>, <<"l","i","n","u","x">>,
    <<"t","e","n","s","o","r","f","l","o","w">>, <<"p","y","t","o","r","c","h">>
  >>

Cat_programming ==
  <<
    <<"p","y","t","h","o","n">>, <<"j","a","v","a">>,
    <<"j","a","v","a","s","c","r","i","p","t">>, <<"c","+","+">>, <<"c","#">>,
    <<"r","u","b","y">>, <<"g","o">>, <<"r","u","s","t">>,
    <<"t","y","p","e","s","c","r","i","p","t">>
  >>

Cat_data_science ==
  <<
    <<"m","a","c","h","i","n","e"," ","l","e","a","r","n","i","n","g">>,
    <<"d","e","e","p"," ","l","e","a","r","n","i","n","g">>,
    <<"d","a","t","a"," ","a","n","a","l","y","s","i","s">>,
    <<"t","e","n","s","o","r","f","l","o","w">>, <<"p","y","t","o","r","c","h">>,
    <<"p","a","n","d","a","s">>, <<"n","u","m","p","y">>
  >>

Cat_web ==
  <<
    <<"h","t","m","l">>, <<"c","s","s">>, <<"r","e","a","c","t">>,
    <<"a","n","g","u","l","a","r">>, <<"v","u","e">>, <<"n","o","d","e",".","j","s">>,
    <<"d","j","a","n","g","o">>, <<"f","l","a","s","k">>
  >>

Cat_cloud ==
  <<
    <<"a","w","s">>, <<"a","z","u","r","e">>, <<"g","c","p">>, <<"d","o","c","k","e","r">>,
    <<"k","u","b","e","r","n","e","t","e","s">>
  >>

Cat_database ==
  <<
    <<"s","q","l">>, <<"m","y","s","q","l">>, <<"p","o","s","t","g","r","e","s","q","l">>,
    <<"m","o","n","g","o","d","b">>, <<"r","e","d","i","s">>
  >>

Cat_soft_skills ==
  <<
    <<"l","e","a","d","e","r","s","h","i","p">>,
    <<"c","o","m","m","u","n","i","c","a","t","i","o","n">>,
    <<"t","e","a","m","w","o","r","k">>,
    <<"p","r","o","b","l","e","m"," ","s","o","l","v","i","n","g">>,
    <<"p","r","o","j","e","c","t"," ","m","a","n","a","g","e","m","e","n","t">>
  >>

-----------------------------------------------------------------------------
(* Optional[str]                                                           *)

None == [none |-> TRUE, str |-> <<>>]
Some(s) == [none |-> FALSE, str |-> s]

\* `if job_description is not None:` the empty str passes.
IsNotNone(jd) == ~jd.none

\* `if job_description:` None and the empty str are falsy.
Truthy(jd) == ~jd.none /\ jd.str # <<>>

\* list(S) of a set of str: the elements in the order the process's hash seed
\* gives them.  S is a set of words of the sequence ref; seed 1 lists them in
\* the order they are first seen in ref, seed n rotates that order by n - 1.
FirstSeen(ref, S) ==
  Filter([k \in DOMAIN ref |-> IF \E j \in 1..(k - 1) : ref[j] = ref[k] THEN <<>> ELSE ref[k]], S)

ListOfSet(S, ref, seed) ==
  LET base == FirstSeen(ref, S)
      n == Len(base)
  IN  [k \in 1..n |-> base[((k + seed - 2) % n) + 1]]

-----------------------------------------------------------------------------
(* ATSScorer.calculate_keyword_score                                       *)

\* min(len(details['action_verbs_found']) / 10, 1) * 25
action_verb_score_uncapped(found) == RMul(Rat(Len(found), 10), Whole(25))
action_verb_score(found) == RMul(RMin(Rat(Len(found), 10), Whole(1)), Whole(25))

\* (len(matched) / len(jd_words)) * 25 if jd_words, 0 otherwise
jd_match_score_of_missing(matched, jd_words) ==
  IF jd_words # {}
  THEN RMul(Rat(Cardinality(jd_words \ matched), Cardinality(jd_words)), Whole(25))
  ELSE Whole(0)
jd_match_score(matched, jd_words) ==
  IF jd_words # {}
  THEN RMul(Rat(Cardinality(matched), Cardinality(jd_words)), Whole(25))
  ELSE Whole(0)

calculate_keyword_score(text, jd, seed) ==
  LET resume_lower == lower(text)
      present == {v \in Range(ACTION_VERBS) : SearchWholeWord(resume_lower, v)}
      action_verbs_found == Filter(ACTION_VERBS, present)
      action_verbs_missing == Filter(ACTION_VERBS, Range(ACTION_VERBS) \ present)
      jd_lower == lower(jd.str)
      jd_found == FindAllWords(jd_lower)
      jd_words == Range(jd_found) \ KeywordCommonWords
      resume_found == FindAllWords(resume_lower)
      resume_words == Range(resume_found)
      matched == jd_words \cap resume_words
      missing == jd_words \ resume_words
      jd_score == IF Truthy(jd) THEN jd_match_score(matched, jd_words) ELSE Whole(15)
      words == split(text)
      keyword_count == Cardinality({k \in DOMAIN words : Len(words[k]) > 5})
      total_score == RAdd(action_verb_score(action_verbs_found), jd_score)
  IN  [score |-> total_score,
       details |->
         [action_verbs_found |-> action_verbs_found,
          action_verbs_missing |-> action_verbs_missing,
          keyword_density |->
            IF words # <<>>
            THEN Round1(RMul(Rat(keyword_count, Len(words)), Whole(100)))
            ELSE Whole(0),
          matched_keywords |->
            IF Truthy(jd) THEN Take(ListOfSet(matched, jd_found, seed), 20) ELSE <<>>,
          missing_keywords |->
            IF Truthy(jd) THEN Take(ListOfSet(missing, jd_found, seed), 20) ELSE <<>>]]

-----------------------------------------------------------------------------
(* ATSScorer.calculate_formatting_score                                    *)

\* The characters the 'special_chars' class [^\w\s\.\,\;\:\-\(\)\@\/\'\"\!\?\#\&\*\+\=]
\* leaves out of its count.
AllowedPunctuation ==
  {".", ",", ";", ":", "-", "(", ")", "@", "/", "'", "\"", "!", "?", "#", "&", "*", "+", "="}

\* len(re.findall(r'\|.*\|.*\|', t)).  '.' matches anything but a newline and
\* '.*' is greedy, so a match runs from the first to the last '|' of a line that
\* holds at least three of them, and the rest of that line holds no further match.
CountTables(t) ==
  LET InLine == Range(t) \ {"\n"}
      Pipes(i) == {k \in i..RunEnd(t, InLine, i) : t[k] = "|"}
  IN  Cardinality({i \in RunStarts(t, InLine) : Cardinality(Pipes(i)) >= 3})

\* len(re.findall(r'[^\w\s...]', t))
CountSpecialChars(t) ==
  Cardinality({i \in DOMAIN t :
                 t[i] \notin WordChar \cup Whitespace \cup AllowedPunctuation})

\* len(re.findall(r'[A-Z]{10,}', t)): {10,} is greedy, so a run of capitals gives
\* one match, and only if it has at least 10 letters.
CountExcessiveCaps(t) ==
  Cardinality({i \in RunStarts(t, Uppercase) : RunEnd(t, Uppercase, i) - i + 1 >= 10})

\* FORMATTING_ISSUES, in the order the dict is iterated: the issue's name, the
\* number of matches of its pattern, and its penalty value.
FORMATTING_ISSUES(t) ==
  << [name |-> "tables", matches |-> CountTables(t), penalty_value |-> -5],
     [name |-> "special chars", matches |-> CountSpecialChars(t), penalty_value |-> -2],
     [name |-> "excessive caps", matches |-> CountExcessiveCaps(t), penalty_value |-> -3] >>

IntMin(a, b) == IF a <= b THEN a ELSE b

\* The loop over FORMATTING_ISSUES from its k-th entry on: the penalty it adds.
RECURSIVE IssuePenaltyUncapped(_, _)
IssuePenaltyUncapped(issues, k) ==
  IF k > Len(issues) THEN 0
  ELSE (IF issues[k].matches > 0 THEN Abs(issues[k].penalty_value) * issues[k].matches ELSE 0)
       + IssuePenaltyUncapped(issues, k + 1)

RECURSIVE IssuePenalty(_, _)
IssuePenalty(issues, k) ==
  IF k > Len(issues) THEN 0
  ELSE (IF issues[k].matches > 0
        THEN IntMin(Abs(issues[k].penalty_value) * issues[k].matches, 10)
        ELSE 0) + IssuePenalty(issues, k + 1)

\* len(resume_text.split())
WordCount(t) == Cardinality(RunStarts(t, Range(t) \ Whitespace))

\* r'-\s+[A-Z]' matches at position i.
DashBulletAt(t, i) ==
  /\ t[i] = "-"
  /\ At(t, i + 1) \in Whitespace
  /\ At(t, RunEnd(t, Whitespace, i + 1) + 1) \in Uppercase

\* A bullet pattern that matches the empty string matches at every position.
has_bullets_empty_match(t) == \E i \in 1..(Len(t) + 1) : TRUE

\* any(re.search(p, t) for p in bullet_patterns).  The first pattern is the three
\* characters U+00E2 U+20AC U+00A2 the source file holds.
has_bullets(t) ==
  \/ Contains(t, <<"U+00E2", "U+20AC", "U+00A2">>)
  \/ \E i \in DOMAIN t : t[i] = "*" /\ At(t, i + 1) \in Whitespace
  \/ \E i \in DOMAIN t : DashBulletAt(t, i)
  \/ \E i \in DOMAIN t : t[i] \in Digit /\ At(t, i + 1) = "."

\* f"Add a '{section.title()}' section", for the k-th of IMPORTANT_SECTIONS.
AddSectionSuggestion ==
  << "Add a 'Experience' section", "Add a 'Education' section", "Add a 'Skills' section",
     "Add a 'Summary' section", "Add a 'Objective' section" >>

\* re.search(r'\b' + section + r's?\b', text_lower) is not None
SectionFound(text_lower, section) ==
  \/ SearchWholeWord(text_lower, section)
  \/ SearchWholeWord(text_lower, section \o <<"s">>)

\* The word counts below and above which the resume is too short or too long.
TooShortBelow == 200
TooLongAbove == 1500

calculate_formatting_score(text) ==
  LET score == 25
      text_lower == lower(text)
      section_status == [k \in DOMAIN IMPORTANT_SECTIONS |->
                           SectionFound(text_lower, IMPORTANT_SECTIONS[k])]
      sections_found == Cardinality({k \in DOMAIN section_status : section_status[k]})
      section_suggestions ==
        Filter(AddSectionSuggestion,
               {AddSectionSuggestion[k] : k \in {j \in DOMAIN section_status : ~section_status[j]}})
      section_score == RMul(Rat(sections_found, Len(IMPORTANT_SECTIONS)), Whole(10))
      found == FORMATTING_ISSUES(text)
      issues == Filter(found, {x \in Range(found) : x.matches > 0})
      word_count == WordCount(text)
      bullets == has_bullets(text)
      penalty ==
        IssuePenalty(found, 1)
        + (IF word_count < TooShortBelow THEN 5 ELSE IF word_count > TooLongAbove THEN 3 ELSE 0)
        + (IF bullets THEN 0 ELSE 2)
      suggestions ==
        section_suggestions
        \o (IF word_count < TooShortBelow
            THEN <<"Resume appears too short. Add more details about your experience.">>
            ELSE IF word_count > TooLongAbove
            THEN <<"Resume may be too long. Consider condensing to 1-2 pages.">>
            ELSE <<>>)
        \o (IF bullets THEN <<>>
            ELSE <<"Use bullet points to list achievements and responsibilities">>)
      final_score == RMax(Whole(0), RSub(RAdd(Whole(score), section_score), Whole(penalty)))
  IN  [score |-> RMin(final_score, Whole(25)),
       details |->
         [issues |-> [k \in DOMAIN issues |->
                        [name |-> issues[k].name, matches |-> issues[k].matches]],
          suggestions |-> suggestions,
          section_status |-> section_status]]

-----------------------------------------------------------------------------
(* ATSScorer.calculate_skill_coverage                                      *)

\* The category names, in the order the dict is iterated, and their tokens.
CategoryNames ==
  <<"programming", "data_science", "web", "cloud", "database", "soft_skills">>

categories ==
  [programming |-> Cat_programming, data_science |-> Cat_data_science, web |-> Cat_web,
   cloud |-> Cat_cloud, database |-> Cat_database, soft_skills |-> Cat_soft_skills]

\* min(len(skills) / 10, 1) * 15
base_score_uncapped(skill_list) == RMul(Rat(Len(skill_list), 10), Whole(15))
base_score(skill_list) == RMul(RMin(Rat(Len(skill_list), 10), Whole(1)), Whole(15))

calculate_skill_coverage(skill_list) ==
  LET skills_lower == [k \in DOMAIN skill_list |-> lower(skill_list[k])]
      matched(c) == Filter(categories[c], Range(skills_lower))
      skill_categories ==
        [c \in Range(CategoryNames) |-> [found |-> matched(c), count |-> Len(matched(c))]]
      categories_with_skills ==
        Cardinality({c \in Range(CategoryNames) : skill_categories[c].count > 0})
      diversity_bonus ==
        RMul(Rat(categories_with_skills, Len(CategoryNames)), Whole(10))
      recommendations ==
        (IF skill_categories["programming"].count = 0
         THEN <<"Add programming languages to your skills">> ELSE <<>>)
        \o (IF skill_categories["soft_skills"].count = 0
            THEN <<"Include soft skills like leadership and communication">> ELSE <<>>)
        \o (IF Len(skill_list) < 5
            THEN <<"Add more relevant skills to improve your profile">> ELSE <<>>)
      total_score == RAdd(base_score(skill_list), diversity_bonus)
  IN  [score |-> RMin(total_score, Whole(25)),
       details |->
         [total_skills |-> Len(skill_list),
          skill_categories |-> skill_categories,
          recommendations |-> recommendations]]

-----------------------------------------------------------------------------
(* ATSScorer.calculate_experience_quality                                  *)

\* The first position from p on that holds no whitespace: where \s* stops.
SkipSpace(t, p) == IF At(t, p) \in Whitespace THEN RunEnd(t, Whitespace, p) + 1 ELSE p

\* (?:w1|w2|...) at position p of the lower-cased text tl: the position of the
\* last character matched by the first alternative that matches, 0 if none does.
RECURSIVE AltEnd(_, _, _, _)
AltEnd(tl, p, alts, k) ==
  IF k > Len(alts) THEN 0
  ELSE IF LiteralAt(tl, p, alts[k]) THEN p + Len(alts[k]) - 1
  ELSE AltEnd(tl, p, alts, k + 1)

\* (?:w1s?|w2s?|...) at position p: as AltEnd, with the optional s taken when present.
OptS(tl, e) == IF e # 0 /\ At(tl, e + 1) = "s" THEN e + 1 ELSE e

\* r'\d+\s*(?:' + alts + ')': the digits from i on, optional whitespace, one of alts.
CountedNounEnd(tl, i, alts, plural) ==
  IF At(tl, i) \notin Digit THEN 0
  ELSE LET e == AltEnd(tl, SkipSpace(tl, RunEnd(tl, Digit, i) + 1), alts, 1)
       IN  IF plural THEN OptS(tl, e) ELSE e

Stems_user == << <<"u","s","e","r">>, <<"c","u","s","t","o","m","e","r">>, <<"c","l","i","e","n","t">> >>
Stems_project ==
  << <<"p","r","o","j","e","c","t">>, <<"a","p","p","l","i","c","a","t","i","o","n">>,
     <<"s","y","s","t","e","m">> >>
Stems_team ==
  << <<"t","e","a","m">>, <<"p","e","o","p","l","e">>, <<"e","m","p","l","o","y","e","e","s">>,
     <<"m","e","m","b","e","r","s">> >>
Stems_duration == << <<"y","e","a","r">>, <<"m","o","n","t","h">> >>
Stems_duration_tail == << <<"e","x","p","e","r","i","e","n","c","e">>, <<"o","f">> >>
Stems_improvement ==
  << <<"i","n","c","r","e","a","s","e","d">>, <<"d","e","c","r","e","a","s","e","d">>,
     <<"i","m","p","r","o","v","e","d">>, <<"r","e","d","u","c","e","d">>, <<"g","r","e","w">>,
     <<"s","a","v","e","d">> >>

\* metric_patterns: the metric types in list order.
metric_types ==
  <<"percentage", "monetary", "user_impact", "project_count", "improvement", "team_size",
    "experience_duration">>

\* result_patterns, in list order: the stem and its optional endings.
result_patterns ==
  << [stem |-> <<"r","e","s","u","l","t">>, endings |-> << <<"e","d">>, <<"i","n","g">> >>],
     [stem |-> <<"a","c","h","i","e","v">>, endings |-> << <<"e","d">>, <<"i","n","g">> >>],
     [stem |-> <<"a","c","c","o","m","p","l","i","s","h">>, endings |-> << <<"e","d">>, <<"i","n","g">> >>],
     [stem |-> <<"d","e","l","i","v","e","r">>, endings |-> << <<"e","d">>, <<"i","n","g">> >>],
     [stem |-> <<"c","o","m","p","l","e","t">>, endings |-> << <<"e","d">>, <<"i","n","g">> >>],
     [stem |-> <<"s","u","c","c","e","s","s">>, endings |-> << <<"f","u","l">> >>] >>

\* The position of the last character of the match of metric pattern `type` that
\* starts at position i (re.IGNORECASE: tl is the lower-cased text), 0 if the
\* pattern does not match there.  Every quantifier is greedy and none has to give
\* anything back: what follows \d+ is never a digit, what follows \s* or \s+ is
\* never whitespace.
MetricMatchEnd(tl, type, i) ==
  CASE type = "percentage" ->        \* \d+%
         IF At(tl, i) \in Digit /\ At(tl, RunEnd(tl, Digit, i) + 1) = "%"
         THEN RunEnd(tl, Digit, i) + 1 ELSE 0
    [] type = "monetary" ->          \* \$[\d,]+[KMB]?
         IF At(tl, i) = "$" /\ At(tl, i + 1) \in Digit \cup {","}
         THEN LET e == RunEnd(tl, Digit \cup {","}, i + 1)
              IN  IF At(tl, e + 1) \in {"k", "m", "b"} THEN e + 1 ELSE e
         ELSE 0
    [] type = "user_impact" ->       \* \d+\s*(?:users?|customers?|clients?)
         CountedNounEnd(tl, i, Stems_user, TRUE)
    [] type = "project_count" ->     \* \d+\s*(?:projects?|applications?|systems?)
         CountedNounEnd(tl, i, Stems_project, TRUE)
    [] type = "improvement" ->       \* (?:increased|...|saved)\s+(?:by\s+)?\d+
         LET v == AltEnd(tl, i, Stems_improvement, 1)
             p == SkipSpace(tl, v + 1)
             q == IF LiteralAt(tl, p, <<"b","y">>) /\ At(tl, p + 2) \in Whitespace
                     /\ At(tl, SkipSpace(tl, p + 2)) \in Digit
                  THEN SkipSpace(tl, p + 2) ELSE p
         IN  IF v # 0 /\ At(tl, v + 1) \in Whitespace /\ At(tl, q) \in Digit
             THEN RunEnd(tl, Digit, q) ELSE 0
    [] type = "team_size" ->         \* \d+\s*(?:team|people|employees|members)
         CountedNounEnd(tl, i, Stems_team, FALSE)
    [] type = "experience_duration" -> \* \d+\s*(?:years?|months?)\s*(?:experience|of)
         LET e == CountedNounEnd(tl, i, Stems_duration, TRUE)
         IN  IF e = 0 THEN 0 ELSE AltEnd(tl, SkipSpace(tl, e + 1), Stems_duration_tail, 1)

\* stem(?:e1|e2)? at position i of the lower-cased text.
ResultMatchEnd(tl, pat, i) ==
  IF ~LiteralAt(tl, i, pat.stem) THEN 0
  ELSE LET e == i + Len(pat.stem) - 1
           f == AltEnd(tl, e + 1, pat.endings, 1)
       IN  IF f # 0 THEN f ELSE e

\* Of the positions in starts where a match can start, those that are >= i.
From(starts, i) == {j \in starts : j >= i}
Leftmost(starts) == CHOOSE j \in starts : \A k \in starts : j <= k

\* re.findall(pattern, t, re.IGNORECASE) scanning from position i: the matches,
\* leftmost first and not overlapping, as pairs <<first, last>> of positions.
\* starts holds the positions where the pattern matches.
RECURSIVE FindAllMetric(_, _, _, _)
FindAllMetric(tl, type, starts, i) ==
  IF From(starts, i) = {} THEN <<>>
  ELSE LET s == Leftmost(From(starts, i))
           e == MetricMatchEnd(tl, type, s)
       IN  <<<<s, e>>>> \o FindAllMetric(tl, type, starts, e + 1)

RECURSIVE CountResult(_, _, _, _)
CountResult(tl, pat, starts, i) ==
  IF From(starts, i) = {} THEN 0
  ELSE 1 + CountResult(tl, pat, starts, ResultMatchEnd(tl, pat, Leftmost(From(starts, i))) + 1)

\* The loop over metric_patterns from its k-th pattern on: what it appends to
\* details['metrics_found'] and adds to details['achievements'].
RECURSIVE MetricsLoop(_, _, _)
MetricsLoop(t, tl, k) ==
  IF k > Len(metric_types) THEN [metrics_found |-> <<>>, achievements |-> 0]
  ELSE LET starts == {i \in DOMAIN tl : MetricMatchEnd(tl, metric_types[k], i) # 0}
           matches == FindAllMetric(tl, metric_types[k], starts, 1)
           first3 == Take(matches, 3)
           rest == MetricsLoop(t, tl, k + 1)
       IN  [metrics_found |->
              [j \in DOMAIN first3 |->
                 <<SubSeq(t, first3[j][1], first3[j][2]), metric_types[k]>>]
              \o rest.metrics_found,
            achievements |-> Len(matches) + rest.achievements]

RECURSIVE SumResults(_, _)
SumResults(tl, k) ==
  IF k > Len(result_patterns) THEN 0
  ELSE CountResult(tl, result_patterns[k],
                   {i \in DOMAIN tl : ResultMatchEnd(tl, result_patterns[k], i) # 0}, 1)
       + SumResults(tl, k + 1)

\* min(result_count / 5, 1) * 10
result_bonus_uncapped(result_count) == RMul(Rat(result_count, 5), Whole(10))
result_bonus(result_count) == RMul(RMin(Rat(result_count, 5), Whole(1)), Whole(10))

calculate_experience_quality(text) ==
  LET tl == lower(text)
      found == MetricsLoop(text, tl, 1)
      metrics_score ==
        RMul(RMin(Rat(Len(found.metrics_found), 5), Whole(1)), Whole(15))
      result_count == SumResults(tl, 1)
      suggestions ==
        (IF found.metrics_found = <<>>
         THEN <<"Add quantifiable achievements (e.g., 'Increased sales by 25%')">> ELSE <<>>)
        \o (IF result_count < 3
            THEN <<"Use more result-oriented language to describe achievements">> ELSE <<>>)
      total_score == RAdd(metrics_score, result_bonus(result_count))
  IN  [score |-> RMin(total_score, Whole(25)),
       details |->
         [metrics_found |-> found.metrics_found,
          achievements |-> found.achievements,
          suggestions |-> suggestions]]

-----------------------------------------------------------------------------
(* ATSScorer.calculate_ats_score                                           *)

\* The grade thresholds of the if/elif chain.
GradeOfStrict(total_score) ==
  IF total_score > 85 THEN [grade |-> "A", grade_text |-> "Excellent"]
  ELSE IF total_score > 70 THEN [grade |-> "B", grade_text |-> "Good"]
  ELSE IF total_score > 55 THEN [grade |-> "C", grade_text |-> "Average"]
  ELSE IF total_score > 40 THEN [grade |-> "D", grade_text |-> "Needs Improvement"]
  ELSE [grade |-> "F", grade_text |-> "Poor"]

GradeOf(total_score) ==
  IF total_score >= 85 THEN [grade |-> "A", grade_text |-> "Excellent"]
  ELSE IF total_score >= 70 THEN [grade |-> "B", grade_text |-> "Good"]
  ELSE IF total_score >= 55 THEN [grade |-> "C", grade_text |-> "Average"]
  ELSE IF total_score >= 40 THEN [grade |-> "D", grade_text |-> "Needs Improvement"]
  ELSE [grade |-> "F", grade_text |-> "Poor"]

IntMax(a, b) == IF a >= b THEN a ELSE b

\* min(max(round(total_score), 0), 100)
TotalScoreUnclamped(total) == Round(total)
TotalScoreTruncated(total) == IntMin(IntMax(total.num \div total.den, 0), 100)
TotalScore(total) == IntMin(IntMax(Round(total), 0), 100)

\* The four analyzer calls: what each returned.
RunAnalyzers(text, skill_list, jd, seed) ==
  [keyword |-> calculate_keyword_score(text, jd, seed),
   formatting |-> calculate_formatting_score(text),
   skill |-> calculate_skill_coverage(skill_list),
   experience |-> calculate_experience_quality(text)]

\* all_suggestions: what the formatting, skill and experience analyzers suggest.
all_suggestions_skills_first(a) ==
  a.skill.details.recommendations \o a.formatting.details.suggestions
    \o a.experience.details.suggestions
all_suggestions(a) ==
  a.formatting.details.suggestions \o a.skill.details.recommendations
    \o a.experience.details.suggestions

\* keyword_details.get('missing_keywords', [])[:15]
top_missing_keywords_uncut(keyword_details) == keyword_details.missing_keywords
top_missing_keywords(keyword_details) == Take(keyword_details.missing_keywords, 15)

\* The result built from the four returns.
ATSResult(a) ==
  LET total_score ==
        TotalScore(RAdd(RAdd(RAdd(a.keyword.score, a.formatting.score), a.skill.score),
                        a.experience.score))
  IN  [total_score |-> total_score,
       grade |-> GradeOf(total_score).grade,
       grade_text |-> GradeOf(total_score).grade_text,
       breakdown |->
         [keyword_score |-> Round1(a.keyword.score),
          formatting_score |-> Round1(a.formatting.score),
          skill_score |-> Round1(a.skill.score),
          experience_score |-> Round1(a.experience.score)],
       details |->
         [keywords |-> a.keyword.details,
          formatting |-> a.formatting.details,
          skills |-> a.skill.details,
          experience |-> a.experience.details],
       suggestions |-> Take(all_suggestions(a), 10),
       missing_keywords |-> top_missing_keywords(a.keyword.details)]

calculate_ats_score(text, skill_list, jd, seed) ==
  ATSResult(RunAnalyzers(text, skill_list, jd, seed))

-----------------------------------------------------------------------------
(* ATSScorer.calculate_job_match                                           *)

\* The first n distinct words in the order they were first seen, whatever their count.
most_common_first_seen(words, n) ==
  LET first == {k \in DOMAIN words : \A j \in 1..(k - 1) : words[j] # words[k]}
  IN  Take([r \in 1..Cardinality(first) |-> words[Nth(first, r)]], n)

\* Counter(words).most_common(n): the distinct words by falling count, words of
\* equal count in the order they were first seen.
most_common(words, n) ==
  LET first == {k \in DOMAIN words : \A j \in 1..(k - 1) : words[j] # words[k]}
      count == [k \in first |-> Cardinality({j \in DOMAIN words : words[j] = words[k]})]
      Before(a, b) == count[a] > count[b] \/ (count[a] = count[b] /\ a < b)
      rank == [k \in first |-> Cardinality({a \in first : Before(a, k)}) + 1]
      ranked == [r \in 1..Cardinality(first) |-> words[CHOOSE k \in first : rank[k] = r]]
  IN  Take(ranked, n)

\* The tier of the if/elif chain over overall_match.
MatchLevelOf(overall_match) ==
  IF RLe(Whole(75), overall_match)
  THEN [match_level |-> "Strong Match",
        recommendation |-> "Your resume is well-aligned with this position. Consider applying!"]
  ELSE IF RLe(Whole(50), overall_match)
  THEN [match_level |-> "Moderate Match",
        recommendation |->
          "You have relevant experience. Tailor your resume to highlight matching skills."]
  ELSE IF RLe(Whole(30), overall_match)
  THEN [match_level |-> "Partial Match",
        recommendation |->
          "Some skills align. Focus on transferable skills and consider upskilling."]
  ELSE [match_level |-> "Low Match",
        recommendation |->
          "This role may require significant skill development. Consider related positions."]

\* keyword_match * 0.6 + skill_match * 0.4
OverallMatchSwapped(keyword_match, skill_match) ==
  RAdd(RMul(keyword_match, Rat(4, 10)), RMul(skill_match, Rat(6, 10)))
OverallMatch(keyword_match, skill_match) ==
  RAdd(RMul(keyword_match, Rat(6, 10)), RMul(skill_match, Rat(4, 10)))

\* The 30 most frequent words of the job description that are no stop words.
important_keywords(jd_lower) ==
  LET found == FindAllWords(jd_lower)
      jd_words == Filter(found, Range(found) \ MatchCommonWords)
  IN  most_common(jd_words, 30)

\* The skill indicators that occur in the job description.
jd_skills(jd_lower) ==
  Filter(skill_indicators, {s \in Range(skill_indicators) : Contains(jd_lower, s)})

\* keyword in resume_lower: a plain substring test.
keyword_in_resume_as_word(resume_lower, keyword) == SearchWholeWord(resume_lower, keyword)
keyword_in_resume(resume_lower, keyword) == Contains(resume_lower, keyword)

\* any(s in rs for rs in resume_skills_lower)
skill_in_labels_exactly(resume_skills_lower, s) ==
  \E k \in DOMAIN resume_skills_lower : resume_skills_lower[k] = s
skill_in_labels(resume_skills_lower, s) ==
  \E k \in DOMAIN resume_skills_lower : Contains(resume_skills_lower[k], s)

\* len(matched_skills) / max(len(jd_skills), 1) * 100 if jd_skills else 50
skill_match_without_fallback(matched, named) == RMul(Rat(matched, IntMax(named, 1)), Whole(100))
skill_match_of(matched, named) ==
  IF named # 0 THEN RMul(Rat(matched, IntMax(named, 1)), Whole(100)) ELSE Whole(50)

calculate_job_match(text, resume_skills, jd_text) ==
  LET jd_lower == lower(jd_text)
      resume_lower == lower(text)
      keywords == important_keywords(jd_lower)
      indicated == jd_skills(jd_lower)
      in_resume == {w \in Range(keywords) : keyword_in_resume(resume_lower, w)}
      matched_keywords == Filter(keywords, in_resume)
      missing_keywords == Filter(keywords, Range(keywords) \ in_resume)
      resume_skills_lower == [k \in DOMAIN resume_skills |-> lower(resume_skills[k])]
      held == {s \in Range(indicated) : skill_in_labels(resume_skills_lower, s)}
      matched_skills == Filter(indicated, held)
      missing_skills == Filter(indicated, Range(indicated) \ held)
      keyword_match ==
        RMul(Rat(Len(matched_keywords), IntMax(Len(keywords), 1)), Whole(100))
      skill_match == skill_match_of(Len(matched_skills), Len(indicated))
      overall_match == OverallMatch(keyword_match, skill_match)
  IN  [overall_match |-> Round1(overall_match),
       match_level |-> MatchLevelOf(overall_match).match_level,
       keyword_match |-> Round1(keyword_match),
       skill_match |-> Round1(skill_match),
       matched_keywords |-> Take(matched_keywords, 15),
       missing_keywords |-> Take(missing_keywords, 15),
       matched_skills |-> matched_skills,
       missing_skills |-> Take(missing_skills, 10),
       recommendation |-> MatchLevelOf(overall_match).recommendation]

-----------------------------------------------------------------------------
(* utils/resume_parser.py: class ResumeParser                              *)

\* An uploaded file: its name, whether the PDF and DOCX libraries can read its
\* content, and the text parts they find in it (the pages of a PDF, the
\* paragraphs and table cells of a DOCX).
UploadedFile(name, readable, parts) == [name |-> name, readable |-> readable, parts |-> parts]

\* What a call gives: the value it returns, or the message of the error it raises.
Returns(text) == [raised |-> FALSE, error |-> "", text |-> text]
Raises(error) == [raised |-> TRUE, error |-> error, text |-> <<>>]

\* str.strip()
strip(t) ==
  LET kept == {i \in DOMAIN t : t[i] \notin Whitespace}
  IN  IF kept = {} THEN <<>>
      ELSE SubSeq(t, CHOOSE i \in kept : \A j \in kept : i <= j,
                     CHOOSE i \in kept : \A j \in kept : j <= i)

\* str.endswith(suffix)
endswith(t, suffix) ==
  Len(suffix) <= Len(t) /\ SubSeq(t, Len(t) - Len(suffix) + 1, Len(t)) = suffix

\* str.title(): a letter that follows no letter in upper case, the others in lower case.
title(s) ==
  [i \in DOMAIN s |->
     IF At(s, i - 1) \in Lowercase \cup Uppercase THEN lower_char(s[i])
     ELSE upper(<<s[i]>>)[1]]

\* extract_text_from_pdf: the text of the pages that have one, each followed by a
\* newline, stripped; both libraries failing on the content leaves "".
extract_text_from_pdf(file) ==
  IF file.readable
  THEN strip(Join([k \in DOMAIN file.parts |->
                     IF file.parts[k] # <<>> THEN file.parts[k] \o <<"\n">> ELSE <<>>], <<>>))
  ELSE <<>>

\* extract_text_from_docx: the parts that are not blank, joined by newlines; a
\* content the library cannot read raises ValueError.
extract_text_from_docx(file) ==
  IF file.readable
  THEN Returns(Join(Filter(file.parts, {p \in Range(file.parts) : strip(p) # <<>>}), <<"\n">>))
  ELSE Raises("Failed to extract text from DOCX")

\* extract_text without the test of lines 107-108 for blank text.
extract_text_unchecked(file) ==
  LET filename_lower == lower(file.name)
  IN  IF endswith(filename_lower, <<".","p","d","f">>)
      THEN Returns(extract_text_from_pdf(file))
      ELSE IF endswith(filename_lower, <<".","d","o","c","x">>)
      THEN extract_text_from_docx(file)
      ELSE IF endswith(filename_lower, <<".","d","o","c">>)
      THEN Raises("DOC format not supported. Please use DOCX or PDF.")
      ELSE Raises("Unsupported file format. Please upload PDF or DOCX.")

\* extract_text: the text of a PDF or DOCX, or ValueError for another format and
\* for blank text.
extract_text(file) ==
  LET filename_lower == lower(file.name)
      extracted ==
        IF endswith(filename_lower, <<".","p","d","f">>)
        THEN Returns(extract_text_from_pdf(file))
        ELSE IF endswith(filename_lower, <<".","d","o","c","x">>)
        THEN extract_text_from_docx(file)
        ELSE IF endswith(filename_lower, <<".","d","o","c">>)
        THEN Raises("DOC format not supported. Please use DOCX or PDF.")
        ELSE Raises("Unsupported file format. Please upload PDF or DOCX.")
  IN  IF extracted.raised THEN extracted
      ELSE IF strip(extracted.text) = <<>>
      THEN Raises("Could not extract text from the resume. The file may be corrupted or empty.")
      ELSE extracted

SKILL_KEYWORDS ==
  << <<"p","y","t","h","o","n">>, <<"j","a","v","a">>,
     <<"j","a","v","a","s","c","r","i","p","t">>, <<"t","y","p","e","s","c","r","i","p","t">>,
     <<"c","+","+">>, <<"c","#">>, <<"r","u","b","y">>, <<"g","o">>, <<"r","u","s","t">>,
     <<"p","h","p">>, <<"s","w","i","f","t">>, <<"k","o","t","l","i","n">>,
     <<"s","c","a","l","a">>, <<"r">>, <<"h","t","m","l">>, <<"c","s","s">>,
     <<"r","e","a","c","t">>, <<"a","n","g","u","l","a","r">>, <<"v","u","e">>,
     <<"n","o","d","e",".","j","s">>, <<"e","x","p","r","e","s","s">>,
     <<"d","j","a","n","g","o">>, <<"f","l","a","s","k">>, <<"f","a","s","t","a","p","i">>,
     <<"s","p","r","i","n","g">>, <<"a","s","p",".","n","e","t">>,
     <<"m","a","c","h","i","n","e"," ","l","e","a","r","n","i","n","g">>,
     <<"d","e","e","p"," ","l","e","a","r","n","i","n","g">>,
     <<"t","e","n","s","o","r","f","l","o","w">>, <<"p","y","t","o","r","c","h">>,
     <<"k","e","r","a","s">>, <<"s","c","i","k","i","t","-","l","e","a","r","n">>,
     <<"p","a","n","d","a","s">>, <<"n","u","m","p","y">>,
     <<"m","a","t","p","l","o","t","l","i","b">>,
     <<"d","a","t","a"," ","a","n","a","l","y","s","i","s">>,
     <<"d","a","t","a"," ","v","i","s","u","a","l","i","z","a","t","i","o","n">>,
     <<"n","l","p">>, <<"c","o","m","p","u","t","e","r"," ","v","i","s","i","o","n">>,
     <<"n","e","u","r","a","l"," ","n","e","t","w","o","r","k","s">>, <<"a","i">>,
     <<"a","r","t","i","f","i","c","i","a","l"," ","i","n","t","e","l","l","i","g","e","n","c","e">>,
     <<"s","q","l">>, <<"m","y","s","q","l">>, <<"p","o","s","t","g","r","e","s","q","l">>,
     <<"m","o","n","g","o","d","b">>, <<"r","e","d","i","s">>,
     <<"e","l","a","s","t","i","c","s","e","a","r","c","h">>,
     <<"c","a","s","s","a","n","d","r","a">>, <<"o","r","a","c","l","e">>,
     <<"s","q","l","i","t","e">>, <<"a","w","s">>, <<"a","z","u","r","e">>, <<"g","c","p">>,
     <<"g","o","o","g","l","e"," ","c","l","o","u","d">>, <<"d","o","c","k","e","r">>,
     <<"k","u","b","e","r","n","e","t","e","s">>, <<"j","e","n","k","i","n","s">>,
     <<"c","i","/","c","d">>, <<"t","e","r","r","a","f","o","r","m">>,
     <<"a","n","s","i","b","l","e">>, <<"g","i","t">>, <<"g","i","t","h","u","b">>,
     <<"g","i","t","l","a","b">>, <<"j","i","r","a">>, <<"a","g","i","l","e">>,
     <<"s","c","r","u","m">>, <<"r","e","s","t"," ","a","p","i">>,
     <<"g","r","a","p","h","q","l">>, <<"m","i","c","r","o","s","e","r","v","i","c","e","s">>,
     <<"l","e","a","d","e","r","s","h","i","p">>,
     <<"c","o","m","m","u","n","i","c","a","t","i","o","n">>,
     <<"p","r","o","b","l","e","m"," ","s","o","l","v","i","n","g">>,
     <<"t","e","a","m","w","o","r","k">>,
     <<"p","r","o","j","e","c","t"," ","m","a","n","a","g","e","m","e","n","t">>,
     <<"a","n","a","l","y","t","i","c","a","l">>,
     <<"a","w","s"," ","c","e","r","t","i","f","i","e","d">>,
     <<"a","z","u","r","e"," ","c","e","r","t","i","f","i","e","d">>, <<"p","m","p">>,
     <<"s","c","r","u","m"," ","m","a","s","t","e","r">>,
     <<"d","a","t","a"," ","s","c","i","e","n","c","e">>,
     <<"m","a","c","h","i","n","e"," ","l","e","a","r","n","i","n","g"," ","e","n","g","i","n","e","e","r">> >>

\* extract_skills: the keywords found as whole words in the lower-cased text, in
\* title case, as list(set(...)).
extract_skills(text, seed) ==
  LET text_lower == lower(text)
      found == Filter(SKILL_KEYWORDS, {w \in Range(SKILL_KEYWORDS) : SearchWholeWord(text_lower, w)})
      found_skills == [k \in DOMAIN found |-> title(found[k])]
  IN  ListOfSet(Range(found_skills), found_skills, seed)

\* parse_resume: the error extract_text raises, or the resume data.  Of the
\* resume data the raw text, the skills and the word count are modelled; the
\* sections, projects and contact details are read by no handler modelled here.
parse_resume(file, seed) ==
  LET extracted == extract_text(file)
  IN  IF extracted.raised THEN [raised |-> TRUE, error |-> extracted.error, data |-> <<>>]
      ELSE [raised |-> FALSE, error |-> "",
            data |-> <<[raw_text |-> extracted.text,
                        skills |-> extract_skills(extracted.text, seed),
                        word_count |-> Len(split(extracted.text))]>>]

-----------------------------------------------------------------------------
(* utils/ai_service.py: class AIService                                    *)

\* AIService(): the client exists iff OPENAI_API_KEY is set; calls counts the
\* requests sent to the service.
AIService(has_key) == [client |-> has_key, calls |-> 0]

\* The skills that decide the career direction of the fallback roadmap.
DataScienceSkills ==
  {<<"p","y","t","h","o","n">>, <<"m","a","c","h","i","n","e"," ","l","e","a","r","n","i","n","g">>, <<"t","e","n","s","o","r","f","l","o","w">>, <<"p","y","t","o","r","c","h">>, <<"d","a","t","a"," ","a","n","a","l","y","s","i","s">>}
FullStackSkills ==
  {<<"r","e","a","c","t">>, <<"j","a","v","a","s","c","r","i","p","t">>, <<"a","n","g","u","l","a","r">>, <<"v","u","e">>, <<"n","o","d","e",".","j","s">>}
CloudSkills ==
  {<<"a","w","s">>, <<"a","z","u","r","e">>, <<"d","o","c","k","e","r">>, <<"k","u","b","e","r","n","e","t","e","s">>}

\* The career direction of _generate_fallback_roadmap: the first of the three
\* lists that holds a lower-cased skill decides.
career_direction(skill_list) ==
  LET labels == {lower(skill_list[k]) : k \in DOMAIN skill_list}
  IN  IF labels \cap DataScienceSkills # {} THEN "Data Science / ML Engineering"
      ELSE IF labels \cap FullStackSkills # {} THEN "Full-Stack Development"
      ELSE IF labels \cap CloudSkills # {} THEN "Cloud / DevOps Engineering"
      ELSE "Software Engineering"

next_roles_of ==
  [x \in {"Data Science / ML Engineering", "Full-Stack Development",
          "Cloud / DevOps Engineering", "Software Engineering"} |->
     CASE x = "Data Science / ML Engineering" -> <<"Data Scientist", "ML Engineer", "AI Engineer">>
       [] x = "Full-Stack Development" -> <<"Senior Developer", "Tech Lead", "Engineering Manager">>
       [] x = "Cloud / DevOps Engineering" -> <<"DevOps Engineer", "Cloud Architect", "SRE">>
       [] OTHER -> <<"Software Engineer", "Senior Engineer", "Tech Lead">>]

skills_to_learn_of ==
  [x \in DOMAIN next_roles_of |->
     CASE x = "Data Science / ML Engineering" -> <<"Deep Learning", "MLOps", "Cloud ML Services">>
       [] x = "Full-Stack Development" -> <<"System Design", "Cloud Architecture", "DevOps">>
       [] x = "Cloud / DevOps Engineering" -> <<"Terraform", "Security", "Cost Optimization">>
       [] OTHER -> <<"System Design", "Algorithms", "Cloud Services">>]

\* _generate_fallback_roadmap.  target_role is "" for None and for the empty str
\* (`target_role or next_roles[0]`); of the four steps the second, whose text
\* depends on the skills, is kept, the other literals of the dict are left out.
generate_fallback_roadmap(resume_data, target_role) ==
  LET career_path == career_direction(resume_data.skills)
      next_roles == next_roles_of[career_path]
      skills_to_learn == skills_to_learn_of[career_path]
  IN
  [current_level |-> "Mid-level Professional",
   target_role |-> IF target_role # "" THEN target_role ELSE next_roles[1],
   timeline |-> "6-12 months",
   core_skill_step |-> [focus |-> career_path, skills_to_learn |-> Take(skills_to_learn, 2)],
   next_roles |-> next_roles,
   key_skills_to_develop |-> skills_to_learn]

\* What a request to the service can come to: the call raises; the message has
\* no content; the content is no JSON; the content is a JSON object.
ServiceResponses == {"raises", "no content", "not json", "json object"}

\* The dict json.loads gives for a JSON object of the service.
ServiceRoadmap ==
  [current_level |-> "service",
   target_role |-> "service",
   timeline |-> "service",
   core_skill_step |-> [focus |-> "service", skills_to_learn |-> <<>>],
   next_roles |-> <<>>,
   key_skills_to_develop |-> <<>>]

\* The end of a call: a roadmap is returned, or an exception leaves the call;
\* requests are the requests sent to the service.
RoadmapReturned(roadmap, requests) == [raised |-> FALSE, roadmap |-> <<roadmap>>, requests |-> requests]
RoadmapRaised(requests) == [raised |-> TRUE, roadmap |-> <<>>, requests |-> requests]

\* generate_career_roadmap without its except clause.
generate_career_roadmap_without_fallback(service, resume_data, target_role, response) ==
  IF ~service.client
  THEN RoadmapReturned(generate_fallback_roadmap(resume_data, target_role), 0)
  ELSE IF response = "json object"
  THEN RoadmapReturned(ServiceRoadmap, 1)
  ELSE RoadmapRaised(1)

\* generate_career_roadmap: the fallback without a client (ai_service.py:30-31);
\* with one, the request is sent and its content parsed (77-92), and whatever
\* is raised there ends in the fallback (94-96).  The job description goes into
\* the prompt only and is left out.
generate_career_roadmap(service, resume_data, target_role, response) ==
  IF ~service.client
  THEN RoadmapReturned(generate_fallback_roadmap(resume_data, target_role), 0)
  ELSE IF response = "json object"
  THEN RoadmapReturned(ServiceRoadmap, 1)
  ELSE RoadmapReturned(generate_fallback_roadmap(resume_data, target_role), 1)

-----------------------------------------------------------------------------
(* utils/database.py: class DatabaseManager; app.py: the session state     *)

\* DatabaseManager(): available iff DATABASE_URL is set and the engine could be
\* created.  rows are the committed rows; session, pending, events, raised,
\* propagated and returned describe the use of get_session under way or last
\* finished: what was yielded ("none" before any use, "None", "open", "closed"),
\* the rows added and not committed, the calls made on the session, whether an
\* exception is in flight, whether it left the call, and what the save returned.
DatabaseManager(available) ==
  [available |-> available, rows |-> <<>>, caller |-> "none", session |-> "none",
   pending |-> <<>>, events |-> <<>>, raised |-> FALSE, propagated |-> FALSE,
   returned |-> <<>>]

\* The three save methods.
SaveMethods == {"save_resume_analysis", "save_job_match", "save_career_roadmap"}

\* db.is_available() is false: the save returns False before get_session.
SaveUnavailable(d, method) ==
  [d EXCEPT !.caller = method, !.session = "none", !.pending = <<>>, !.events = <<>>,
            !.raised = FALSE, !.propagated = FALSE, !.returned = <<FALSE>>]

\* get_session with an available database: session = self.Session().
SessionOpened(d, method) ==
  [d EXCEPT !.caller = method, !.session = "open", !.pending = <<>>, !.events = <<"open">>,
            !.raised = FALSE, !.propagated = FALSE, !.returned = <<>>]

\* The end of a save method: `return True` after the with block, `return False`
\* in `except Exception`.
save_without_except(raised) ==
  [returned |-> IF raised THEN <<>> ELSE <<TRUE>>, propagated |-> raised]
save_returns(raised) ==
  [returned |-> <<~raised>>, propagated |-> FALSE]

\* st.session_state as app.py:44-59 initialises it; None is <<>>, a value <<value>>.
InitialSessionState ==
  [resume_data |-> <<>>, ats_result |-> <<>>, job_match_result |-> <<>>,
   roadmap_data |-> <<>>, batch_results |-> <<>>]

\* Nothing run yet: the handler last run, the file and the job description it was
\* given, the message it showed, and the scorer calls and reruns so far.
InitialUI ==
  [handler |-> "none", uploaded_file |-> <<>>, job_description |-> <<>>, message |-> "",
   error |-> "", ats_calls |-> 0, match_calls |-> 0, reruns |-> 0]

\* The application is not running.
AppIdle ==
  /\ files = <<>>
  /\ session_state = InitialSessionState
  /\ db = DatabaseManager(FALSE)
  /\ ai = AIService(FALSE)
  /\ ui = InitialUI
  /\ pc = "idle"
  /\ running = <<>>

-----------------------------------------------------------------------------
(* The inputs the calls are checked on.  A text is built from words of the  *)
(* scorer's own tables and a few literals, joined by a separator.           *)


HashSeeds == 2

\* --- calculate_keyword_score ---------------------------------------------
MaxVerbs == 12

W_python == <<"p","y","t","h","o","n">>
W_sql == <<"s","q","l">>
W_leadership == <<"l","e","a","d","e","r","s","h","i","p">>
W_docker == <<"d","o","c","k","e","r">>
W_aws == <<"a","w","s">>

\* Verb fragments: the first n vocabulary verbs (alternating in letter case), verbs
\* inside longer words, and verbs next to punctuation.
VerbWords(n) ==
  [k \in 1..n |-> IF k % 3 = 0 THEN upper(ACTION_VERBS[k])
                  ELSE IF k % 3 = 1 THEN Capitalize(ACTION_VERBS[k]) ELSE ACTION_VERBS[k]]
NearVerbWords ==
  << <<"m","i","s">> \o ACTION_VERBS[23], ACTION_VERBS[23] \o <<"_","b","y">>,
     ACTION_VERBS[24] \o <<"s">>, <<"1">> \o ACTION_VERBS[5] >>
PunctVerbWords ==
  << <<"c","o","-">> \o ACTION_VERBS[23] \o <<",">>, <<"(">> \o Capitalize(ACTION_VERBS[24]) \o <<")">>,
     ACTION_VERBS[12] \o <<".">> >>
KeywordVerbFragments ==
  {VerbWords(n) : n \in 0..MaxVerbs} \cup {NearVerbWords, PunctVerbWords, NearVerbWords \o PunctVerbWords}

KeywordVocabFragments ==
  { <<>>,
    <<W_python, W_sql, W_leadership>>,
    <<Capitalize(W_python), upper(W_sql)>>,
    <<W_python \o <<"3">>, W_sql \o <<"_">> \o W_leadership, W_docker>> }

KeywordJobDescriptions ==
  { None,
    Some(<<>>),
    Some(Join(<<KeywordCommonWordList[1], KeywordCommonWordList[4], KeywordCommonWordList[13]>>, Space)),
    Some(Join(<<Capitalize(W_python) \o <<",">>, upper(W_sql), KeywordCommonWordList[4],
                W_leadership \o <<".">>>>, Space)),
    Some(Join(<<W_python, W_sql, W_leadership, W_docker, W_aws>>, Space)),
    Some(Join(<<W_sql, upper(W_sql), Capitalize(W_sql), W_docker>>, <<"\n">>)),
    Some(Join(<<ACTION_VERBS[23], ACTION_VERBS[24], <<"o","f">>, <<"a","i">>>>, Space)) }

KeywordTexts ==
  {Join(v \o w, Space) : v \in KeywordVerbFragments, w \in KeywordVocabFragments}

InitKeyword ==
  /\ resume_text \in KeywordTexts
  /\ skills = <<>>
  /\ job_description \in KeywordJobDescriptions
  /\ hash_seed \in 1..HashSeeds
  /\ called = "none"
  /\ analyzed = <<>>
  /\ ret = <<>>
  /\ AppIdle


\* --- calculate_formatting_score ------------------------------------------
MaxTables == 3
MaxSpecialChars == 6
MaxCapsRuns == 4

Repeat(w, n) == [k \in 1..n |-> w]

\* One line of text: the first k section names (capitalized, the second one in
\* the plural), c runs of ten capitals, b characters outside the allowed set,
\* an optional bullet, then padding up to `target` words.
FormattingLine(k, c, b, bullet, target) ==
  LET sections == [j \in 1..k |-> IF j = 2 THEN Capitalize(IMPORTANT_SECTIONS[j]) \o <<"s">>
                                  ELSE Capitalize(IMPORTANT_SECTIONS[j])]
      base == bullet \o sections \o Repeat(First(UpperAZ, 10), c) \o Repeat(<<"~">>, b)
  IN  base \o Repeat(<<"x">>, IF target > Len(base) THEN target - Len(base) ELSE 0)

\* The line followed by `a` table rows, each a line of its own holding three pipes.
FormattingText(k, a, c, b, bullet, target) ==
  Join(<<Join(FormattingLine(k, c, b, bullet, target - a), Space)>> \o Repeat(<<"|","a","|","b","|">>, a),
       <<"\n">>)

NoBullet == <<>>
StarBullet == << <<"*">> >>
Bullets ==
  { NoBullet, StarBullet, << <<"-">>, Capitalize(ACTION_VERBS[23]) >>, << <<"1",".">> >>,
    << <<"U+00E2", "U+20AC", "U+00A2">> >>, << <<"U+2022">>, <<"-">>, ACTION_VERBS[23], <<"*","x">> >> }

\* Words that look like sections, capitals or table rows and are none.
FormattingNearMisses ==
  Join(<<First(IMPORTANT_SECTIONS[3], 5), IMPORTANT_SECTIONS[1] \o <<"d">>,
         <<"_">> \o IMPORTANT_SECTIONS[4], First(UpperAZ, 9), <<"a","|","b","|","c">>>>, Space)

FormattingTexts ==
  {FormattingText(k, a, c, b, bullet, 0) :
     k \in 0..5, a \in 0..MaxTables, c \in {0, 3, MaxCapsRuns},
     b \in {0, 4, 5, MaxSpecialChars}, bullet \in {NoBullet, StarBullet}}
  \cup {FormattingText(0, 0, 0, 0, bullet, 0) : bullet \in Bullets}
  \cup {FormattingNearMisses}
  \cup {FormattingText(k, a, 0, b, bullet, target) :
          k \in {0, 5}, a \in {0, MaxTables}, b \in {0, MaxSpecialChars},
          bullet \in {NoBullet, StarBullet}, target \in {TooShortBelow - 1, TooShortBelow}}
  \cup {FormattingText(k, a, 0, 0, bullet, target) :
          k \in {0, 5}, a \in {0, MaxTables}, bullet \in {NoBullet, StarBullet},
          target \in {TooLongAbove, TooLongAbove + 1}}

InitFormatting ==
  /\ resume_text \in FormattingTexts
  /\ skills = <<>>
  /\ job_description = None
  /\ hash_seed = 1
  /\ called = "none"
  /\ analyzed = <<>>
  /\ ret = <<>>
  /\ AppIdle

\* --- calculate_skill_coverage --------------------------------------------
MaxOtherSkills == 5

\* One label of each category, in mixed case, and a second programming language.
S_machine_learning == Cat_data_science[1]
S_react == Cat_web[3]
CategorySkillPool ==
  << Capitalize(W_python), Capitalize(S_machine_learning), Capitalize(S_react), upper(W_aws),
     upper(W_sql), Capitalize(W_leadership), upper(Cat_programming[2]) >>

\* Labels that equal no canonical token, some of them containing one.
OtherSkillPool ==
  << <<"E","x","c","e","l">>, Capitalize(W_python) \o <<"3">>, upper(W_sql) \o <<" ","S","e","r","v","e","r">>,
     <<"G","i","t">>, Capitalize(W_leadership) \o <<"s">>, <<"G","o","l","a","n","g">>,
     <<"F","i","g","m","a">>, <<"J","i","r","a">> >>

SkillLists ==
  {Filter(CategorySkillPool, S) \o First(OtherSkillPool, n) :
     S \in SUBSET Range(CategorySkillPool), n \in 0..MaxOtherSkills}

\* Lists of the same labels in another letter case, another order, and with a
\* label said twice.
SkillVariants ==
  { <<Capitalize(W_python), upper(W_sql)>>,
    <<W_sql, upper(W_python)>>,
    <<Capitalize(W_python), W_python, upper(W_sql)>>,
    <<W_leadership>>,
    <<Capitalize(W_leadership), upper(W_leadership), W_leadership>> }

InitSkill ==
  /\ resume_text = <<>>
  /\ skills \in SkillLists \cup SkillVariants
  /\ job_description = None
  /\ hash_seed = 1
  /\ called = "none"
  /\ analyzed = <<>>
  /\ ret = <<>>
  /\ AppIdle


\* --- calculate_ats_score -------------------------------------------------
MaxMetrics == 7
MaxResultWords == 5
MaxSkills == 12

MetricPhrases ==
  << <<"1","0"," ","u","s","e","r","s">>,
     <<"5"," ","p","r","o","j","e","c","t","s">>,
     <<"i","n","c","r","e","a","s","e","d"," ","b","y"," ","2","0">>,
     <<"3"," ","t","e","a","m">>,
     <<"2"," ","y","e","a","r","s"," ","o","f">>,
     <<"2","5","%">>,
     <<"$","5","K">>,
     <<"4","0"," ","c","l","i","e","n","t","s">> >>

ResultWords ==
  << <<"r","e","s","u","l","t","s">>,
     <<"s","u","c","c","e","s","s","f","u","l">>,
     <<"c","o","m","p","l","e","t","e","d">>,
     <<"D","e","l","i","v","e","r","i","n","g">>,
     <<"a","c","h","i","e","v","i","n","g">>,
     <<"a","c","c","o","m","p","l","i","s","h">> >>

SkillPool ==
  << <<"P","y","t","h","o","n">>,
     <<"L","e","a","d","e","r","s","h","i","p">>,
     <<"S","Q","L">>,
     <<"A","W","S">>,
     <<"R","e","a","c","t">>,
     <<"P","a","n","d","a","s">>,
     <<"J","a","v","a">>,
     <<"T","e","a","m","w","o","r","k">>,
     <<"D","o","c","k","e","r">>,
     <<"E","x","c","e","l">>,
     <<"G","i","t">>,
     <<"L","i","n","u","x">>,
     <<"F","i","g","m","a">> >>

\* The skill indicators that are single words, in the order of skill_indicators.
SingleWordIndicators ==
  Filter(skill_indicators, {s \in Range(skill_indicators) : <<" ">> \notin {<<c>> : c \in Range(s)}})

\* A resume: ks section headings, nv action verbs, nm quantified phrases, nr
\* result words and nj words of the job descriptions below.
ATSText(ks, nv, nm, nr, nj) ==
  Join(EachCapitalized(First(IMPORTANT_SECTIONS, ks)) \o VerbWords(nv) \o First(MetricPhrases, nm)
         \o First(ResultWords, nr) \o First(<<W_python, W_sql, W_leadership, W_docker>>, nj),
       Space)

ATSTexts ==
  {ATSText(ks, nv, nm, nr, nj) :
     ks \in {0, 5}, nv \in {0, 3, MaxVerbs}, nm \in {0, 2, MaxMetrics},
     nr \in {0, MaxResultWords}, nj \in {0, 3}}

\* The number of words of the long job description.
MaxJDVocabulary == 22

\* No job description, an empty one, two short ones and one of MaxJDVocabulary
\* words, more than the lists of keywords may hold.
ATSJobDescriptions ==
  { None,
    Some(<<>>),
    Some(Join(<<Capitalize(W_python) \o <<",">>, upper(W_sql), KeywordCommonWordList[4],
                W_leadership \o <<".">>>>, Space)),
    Some(Join(<<KeywordCommonWordList[1], W_python, W_docker>>, Space)),
    Some(Join(First(SingleWordIndicators, MaxJDVocabulary), Space)) }

\* The hash seed matters only where a set of str is listed.
InitATS ==
  /\ resume_text \in ATSTexts
  /\ skills \in {First(SkillPool, n) : n \in {0, 6, MaxSkills}}
  /\ job_description \in ATSJobDescriptions
  /\ hash_seed \in (IF Truthy(job_description) THEN 1..HashSeeds ELSE {1})
  /\ called = "none"
  /\ analyzed = <<>>
  /\ ret = <<>>
  /\ AppIdle

\* The inputs of two calls in a row: short resumes with every job description.
InitTwice ==
  /\ resume_text \in {ATSText(ks, 0, 0, nr, nj) : ks \in {0, 5}, nr \in {0, 1}, nj \in {0, 3}}
  /\ skills \in {First(SkillPool, n) : n \in {0, 6}}
  /\ job_description \in ATSJobDescriptions
  /\ hash_seed \in 1..HashSeeds
  /\ called = "none"
  /\ analyzed = <<>>
  /\ ret = <<>>
  /\ AppIdle

\* --- calculate_job_match -------------------------------------------------
MaxJDSkills == 13
MaxJDOther == 6

\* Skill indicators that are single words, in the order of skill_indicators, and
\* words that hold no skill indicator and are no stop words.
IndicatorWords == SingleWordIndicators
OtherJDWords ==
  << <<"e","n","g","i","n","e","e","r">>,
     <<"s","e","n","i","o","r">>,
     <<"d","e","s","i","g","n">>,
     <<"b","a","c","k","e","n","d">>,
     <<"d","e","v","e","l","o","p">>,
     <<"s","y","s","t","e","m","s">>,
     <<"m","e","n","t","o","r">>,
     <<"r","e","m","o","t","e">> >>

\* A job description naming the first d indicator words and e other words.
JDWords(d, e) == First(IndicatorWords, d) \o First(OtherJDWords, e)
MatchJD(d, e) ==
  Join([k \in 1..(d + e) |-> IF k % 2 = 0 THEN Capitalize(JDWords(d, e)[k]) ELSE JDWords(d, e)[k]],
       Space)

\* The inputs of calculate_job_match: the job description, a resume text holding
\* its first a words, and the first c indicator words as skill labels.
MatchCase(d, e, a, c) ==
  <<MatchJD(d, e), Join(First(JDWords(d, e), a), Space), EachCapitalized(First(IndicatorWords, c))>>

\* Every number of resume words; of the numbers of skill labels the small ones
\* and every third one.
MatchInputs ==
  UNION {{MatchCase(d, e, a, c) : a \in 0..(d + e), c \in {n \in 0..d : n < 5 \/ n % 3 = 1}} :
           d \in {0, 1, 2, 4, MaxJDSkills}, e \in {0, 4, MaxJDOther}}

\* An empty job description, with resumes and skill labels of every kind.
EmptyJDInputs ==
  {<<<<>>, Join(First(JDWords(4, 4), a), Space), EachCapitalized(First(IndicatorWords, c))>> :
     a \in {0, 3}, c \in {0, 2}}

\* Keywords and skills that the resume and the labels hold inside longer words
\* only, and a skill indicator of two words.
SubstringInputs ==
  LET W_javascript == <<"j","a","v","a","s","c","r","i","p","t">>
      W_mysql == <<"m","y","s","q","l">>
      W_react_native == <<"R","e","a","c","t"," ","N","a","t","i","v","e">>
      W_engineers == <<"e","n","g","i","n","e","e","r","s">>
      W_java == <<"j","a","v","a">>
      W_react == <<"r","e","a","c","t">>
  IN
  { <<Join(<<Capitalize(W_java), W_sql, W_react, OtherJDWords[1]>>, Space),
      Join(<<W_javascript, W_mysql, <<"p">> \o W_react, W_engineers>>, Space),
      <<Capitalize(W_javascript), upper(W_mysql), W_react_native>>>>,
    <<Join(<<Capitalize(W_java), W_sql, W_react, OtherJDWords[1]>>, Space),
      Join(<<W_javascript, W_sql>>, Space),
      <<upper(W_sql), W_engineers>>>>,
    <<Join(<<Capitalize(W_javascript) \o <<",">>, Capitalize(S_machine_learning)>>, Space),
      Join(<<W_java, S_machine_learning>>, Space),
      <<S_machine_learning>>>>,
    <<Join(<<Capitalize(W_javascript) \o <<",">>, Capitalize(S_machine_learning)>>, Space),
      <<>>,
      <<Capitalize(W_java)>>>> }

\* The vocabulary of the long job descriptions, and their greatest number of
\* distinct words (important_keywords holds 30).
JDVocabulary == IndicatorWords \o OtherJDWords
MaxJDDistinct == 32

\* Job descriptions of n distinct words, said once in the vocabulary's order and
\* then again: the last word twice more, the one before it and the second once more.
FrequencyInputs ==
  LET RepeatingJD(n) ==
        Join(First(JDVocabulary, n)
               \o <<JDVocabulary[n], Capitalize(JDVocabulary[n - 1]), JDVocabulary[2],
                    JDVocabulary[n]>>,
             Space)
  IN  {<<RepeatingJD(n), Join(First(JDVocabulary, a), Space),
         EachCapitalized(First(IndicatorWords, c))>> :
         n \in {3, 29, 30, 31, MaxJDDistinct}, a \in {0, 2, 5}, c \in {0, 3}}

InitMatch ==
  /\ \E in \in MatchInputs \cup EmptyJDInputs \cup SubstringInputs \cup FrequencyInputs :
       /\ job_description = Some(in[1])
       /\ resume_text = in[2]
       /\ skills = in[3]
  /\ hash_seed = 1
  /\ called = "none"
  /\ analyzed = <<>>
  /\ ret = <<>>
  /\ AppIdle

\* --- calculate_experience_quality ----------------------------------------
MaxPercentages == 5
MaxResultCount == 7

\* n percentages "10%", "20%", ... of the one pattern family, nm other metric
\* phrases, nr result words taking ResultWords round and round, and a text that
\* holds a result stem twice, the two sharing a letter.
ExperienceText(np, nm, nr, shared) ==
  LET DigitChars == <<"1","2","3","4","5","6","7","8","9">>
      Percentages == [k \in 1..np |-> <<DigitChars[k], "0", "%">>]
      ResultRound == [k \in 1..nr |-> ResultWords[((k - 1) % Len(ResultWords)) + 1]]
      SharedLetter == <<"S","u","c","c","e","s","s","u","c","c","e","s","s">>
  IN  Join(Percentages \o First(MetricPhrases, nm) \o ResultRound
             \o (IF shared THEN <<SharedLetter>> ELSE <<>>),
           Space)

ExperienceTexts ==
  {ExperienceText(np, nm, nr, shared) :
     np \in 0..MaxPercentages, nm \in 0..MaxMetrics, nr \in 0..MaxResultCount,
     shared \in BOOLEAN}

InitExperience ==
  /\ resume_text \in ExperienceTexts
  /\ skills = <<>>
  /\ job_description = None
  /\ hash_seed = 1
  /\ called = "none"
  /\ analyzed = <<>>
  /\ ret = <<>>
  /\ AppIdle

-----------------------------------------------------------------------------
(* The calls.                                                              *)

Inputs == <<resume_text, skills, job_description, hash_seed>>

CallKeywordScore ==
  /\ called = "none"
  /\ called' = "calculate_keyword_score"
  /\ ret' = <<calculate_keyword_score(resume_text, job_description, hash_seed)>>
  /\ UNCHANGED <<Inputs, analyzed, App>>

CallFormattingScore ==
  /\ called = "none"
  /\ called' = "calculate_formatting_score"
  /\ ret' = <<calculate_formatting_score(resume_text)>>
  /\ UNCHANGED <<Inputs, analyzed, App>>

CallSkillCoverage ==
  /\ called = "none"
  /\ called' = "calculate_skill_coverage"
  /\ ret' = <<calculate_skill_coverage(skills)>>
  /\ UNCHANGED <<Inputs, analyzed, App>>

CallExperienceQuality ==
  /\ called = "none"
  /\ called' = "calculate_experience_quality"
  /\ ret' = <<calculate_experience_quality(resume_text)>>
  /\ UNCHANGED <<Inputs, analyzed, App>>

CallATSScore ==
  /\ called = "none"
  /\ called' = "calculate_ats_score"
  /\ analyzed' = RunAnalyzers(resume_text, skills, job_description, hash_seed)
  /\ ret' = <<ATSResult(analyzed')>>
  /\ UNCHANGED <<Inputs, App>>

\* calculate_job_match takes a str: its callers pass the job description they hold.
CallJobMatch ==
  /\ called = "none"
  /\ ~job_description.none
  /\ called' = "calculate_job_match"
  /\ ret' = <<calculate_job_match(resume_text, skills, job_description.str)>>
  /\ UNCHANGED <<Inputs, analyzed, App>>

\* A second call of calculate_ats_score with the same arguments.
CallATSScoreAgain ==
  /\ called = "calculate_ats_score"
  /\ Len(ret) = 1
  /\ analyzed' = RunAnalyzers(resume_text, skills, job_description, hash_seed)
  /\ ret' = Append(ret, ATSResult(analyzed'))
  /\ UNCHANGED <<Inputs, called, App>>

\* Between the two calls the interpreter is started anew: Python draws a new
\* string-hash seed for every process, the arguments stay what they were.
RestartProcess ==
  /\ called = "calculate_ats_score"
  /\ Len(ret) = 1
  /\ hash_seed' \in (1..HashSeeds) \ {hash_seed}
  /\ UNCHANGED <<resume_text, skills, job_description, called, analyzed, ret, App>>

SpecKeyword == InitKeyword /\ [][CallKeywordScore]_vars
SpecFormatting == InitFormatting /\ [][CallFormattingScore]_vars
SpecSkill == InitSkill /\ [][CallSkillCoverage]_vars
SpecATS == InitATS /\ [][CallATSScore]_vars
SpecMatch == InitMatch /\ [][CallJobMatch]_vars
SpecExperience == InitExperience /\ [][CallExperienceQuality]_vars
SpecTwice == InitTwice /\ [][CallATSScore \/ RestartProcess \/ CallATSScoreAgain]_vars

-----------------------------------------------------------------------------
(* Claims about calculate_keyword_score.                                   *)

\* The words of a text: its maximal runs of word characters.
MaximalWords(t) == {SubSeq(t, i, RunEnd(t, WordChar, i)) : i \in RunStarts(t, WordChar)}

\* The vocabulary verbs that occur in the text as whole words, whatever their case.
VerbsAsWholeWords(t) == Range(ACTION_VERBS) \cap MaximalWords(lower(t))

\* The lower-case alphabetic words of length >= 3 of a text.
AlphabeticWords(t) ==
  {w \in MaximalWords(lower(t)) : Len(w) >= 3 /\ \A k \in DOMAIN w : w[k] \in Lowercase}

KeywordCalled == called = "calculate_keyword_score"

\* min(n/10, 1) * 25 for n verbs.
VerbPart(n) == IF n >= 10 THEN Whole(25) ELSE Rat(25 * n, 10)

\* C7: without a job description (None, or the empty str the code treats alike)
\* calculate_keyword_score returns min(n/10, 1) * 25 + 15, n being the number of
\* vocabulary action verbs that occur as whole words, case-insensitively, in the
\* resume text.
C7_KeywordScoreWithoutJD ==
  (KeywordCalled /\ ~Truthy(job_description)) =>
    ret[1].score = RAdd(VerbPart(Cardinality(VerbsAsWholeWords(resume_text))), Whole(15))

\* Exactly 3 action verbs and no job description: 22.5.
C7_Witness ==
  /\ KeywordCalled
  /\ job_description.none
  /\ Cardinality(VerbsAsWholeWords(resume_text)) = 3
  /\ ret[1].score = Rat(45, 2)

\* C8: with a job description (one the code's test `if job_description:` accepts),
\* JD being the job description's alphabetic words minus the stop words and R the
\* resume's alphabetic words: the matched keywords are JD \cap R, the missing ones
\* JD \ R (each list capped to 20), and the score is the action-verb part plus
\* |JD \cap R| / |JD| * 25, or plus 0 when JD is empty.
C8_KeywordScoreWithJD ==
  (KeywordCalled /\ Truthy(job_description)) =>
    LET JD == AlphabeticWords(job_description.str) \ KeywordCommonWords
        R == AlphabeticWords(resume_text)
        d == ret[1].details
        component == IF JD = {} THEN Whole(0)
                     ELSE Rat(25 * Cardinality(JD \cap R), Cardinality(JD))
    IN  /\ Range(d.matched_keywords) \subseteq JD \cap R
        /\ Len(d.matched_keywords) = IntMin(Cardinality(JD \cap R), 20)
        /\ Range(d.missing_keywords) \subseteq JD \ R
        /\ Len(d.missing_keywords) = IntMin(Cardinality(JD \ R), 20)
        /\ ret[1].score =
             RAdd(VerbPart(Cardinality(VerbsAsWholeWords(resume_text))), component)
        /\ (JD # {} /\ JD \subseteq R) =>
             /\ d.missing_keywords = <<>>
             /\ ret[1].score =
                  RAdd(VerbPart(Cardinality(VerbsAsWholeWords(resume_text))), Whole(25))

\* A job description whose vocabulary {python, sql, leadership} is all in the resume.
C8_Witness ==
  /\ KeywordCalled
  /\ Truthy(job_description)
  /\ AlphabeticWords(job_description.str) \ KeywordCommonWords = {W_python, W_sql, W_leadership}
  /\ Len(ret[1].details.matched_keywords) = 3
  /\ ret[1].details.missing_keywords = <<>>
  /\ ret[1].score = RAdd(VerbPart(Cardinality(VerbsAsWholeWords(resume_text))), Whole(25))

\* C30: calculate_keyword_score scores an empty-str job description exactly like
\* an absent one (component 15, no matched and no missing keywords), gives a
\* non-empty job description with no word left after the stop words component 0,
\* and with any job description supplied returns a score between the action-verb
\* part and the action-verb part plus 25.
C30_EmptyJobDescriptions ==
  KeywordCalled =>
    LET verb_part == VerbPart(Cardinality(VerbsAsWholeWords(resume_text)))
        vocabulary == AlphabeticWords(job_description.str) \ KeywordCommonWords
        supplied == ~job_description.none
        empty == job_description.str = <<>>
    IN  /\ (supplied /\ empty) =>
              /\ ret[1] = calculate_keyword_score(resume_text, None, hash_seed)
              /\ ret[1].score = RAdd(verb_part, Whole(15))
              /\ ret[1].details.matched_keywords = <<>>
              /\ ret[1].details.missing_keywords = <<>>
        /\ (supplied /\ ~empty /\ vocabulary = {}) => ret[1].score = verb_part
        /\ supplied =>
              /\ RLe(verb_part, ret[1].score)
              /\ RLe(ret[1].score, RAdd(verb_part, Whole(25)))

\* An empty-str job description and a resume with 2 action verbs: 5 + 15.
C30_Witness ==
  /\ KeywordCalled
  /\ ~job_description.none
  /\ job_description.str = <<>>
  /\ Cardinality(VerbsAsWholeWords(resume_text)) = 2
  /\ ret[1].score = Whole(20)

-----------------------------------------------------------------------------
(* Claims about calculate_formatting_score and calculate_skill_coverage.   *)

FormattingCalled == called = "calculate_formatting_score"

\* The number of the five sections whose name, or its name followed by s, is a
\* word of the text.
SectionsPresent(t) ==
  Cardinality({k \in DOMAIN IMPORTANT_SECTIONS :
                 \/ IMPORTANT_SECTIONS[k] \in MaximalWords(lower(t))
                 \/ IMPORTANT_SECTIONS[k] \o <<"s">> \in MaximalWords(lower(t))})

\* min(points * occurrences, 10)
CappedPenalty(points, occurrences) == IntMin(points * occurrences, 10)

\* The number of words of a text: the positions where a word ends.
NumberOfWords(t) ==
  Cardinality({i \in DOMAIN t : t[i] \notin Whitespace /\ At(t, i + 1) \in Whitespace \cup {""}})

\* The total penalty as the claim states it.
StatedPenalty(t) ==
  CappedPenalty(5, CountTables(t)) + CappedPenalty(2, CountSpecialChars(t))
  + CappedPenalty(3, CountExcessiveCaps(t))
  + (IF NumberOfWords(t) < 200 THEN 5 ELSE IF NumberOfWords(t) > 1500 THEN 3 ELSE 0)
  + (IF has_bullets(t) THEN 0 ELSE 2)

SkillCalled == called = "calculate_skill_coverage"

\* The categories with a canonical token equal to a lower-cased skill label.
CategoriesCovered(skill_list) ==
  {c \in Range(CategoryNames) :
     \E k \in DOMAIN skill_list : \E j \in DOMAIN categories[c] :
       categories[c][j] = lower(skill_list[k])}

\* C10: calculate_skill_coverage returns
\* min(min(len(skills)/10, 1) * 15 + (c/6) * 10, 25), c being the number of
\* categories covered; it recommends programming languages iff programming is not
\* covered, soft skills iff soft_skills is not covered, and more skills iff
\* len(skills) < 5.
C10_SkillCoverage ==
  SkillCalled =>
    LET n == Len(skills)
        c == Cardinality(CategoriesCovered(skills))
        base == IF n >= 10 THEN Whole(15) ELSE Rat(15 * n, 10)
        recs == Range(ret[1].details.recommendations)
    IN  /\ ret[1].score = RMin(RAdd(base, Rat(10 * c, 6)), Whole(25))
        /\ ("Add programming languages to your skills" \in recs)
             <=> ("programming" \notin CategoriesCovered(skills))
        /\ ("Include soft skills like leadership and communication" \in recs)
             <=> ("soft_skills" \notin CategoriesCovered(skills))
        /\ ("Add more relevant skills to improve your profile" \in recs) <=> (n < 5)
        /\ Len(ret[1].details.recommendations) = Cardinality(recs)

\* Six skills covering programming and soft_skills only: 9 + 10/3.
C10_Witness ==
  /\ SkillCalled
  /\ Len(skills) = 6
  /\ CategoriesCovered(skills) = {"programming", "soft_skills"}
  /\ ret[1].score = Rat(37, 3)
  /\ ret[1].details.recommendations = <<>>

\* The lower-cased labels of a skill list, as a set.
LabelSet(skill_list) == {lower(skill_list[k]) : k \in DOMAIN skill_list}

\* C21: calculate_skill_coverage treats the skill list as a case-insensitive set:
\* a list with the same set of lower-cased labels (in another letter case or
\* order, or with repeated entries) gets the same score and the same matches in
\* every category.
C21_SameLabelsSameCoverage ==
  SkillCalled =>
    \A other \in SkillLists \cup SkillVariants :
      LabelSet(other) = LabelSet(skills) =>
        LET coverage == calculate_skill_coverage(other)
        IN  /\ coverage.score = ret[1].score
            /\ coverage.details.skill_categories = ret[1].details.skill_categories

-----------------------------------------------------------------------------
(* Claims about calculate_ats_score.                                       *)

ATSCalled == called = "calculate_ats_score"

\* The sum of the unrounded scores the four analyzers returned to the call.
AnalyzerSum ==
  RAdd(RAdd(RAdd(analyzed.keyword.score, analyzed.formatting.score), analyzed.skill.score),
       analyzed.experience.score)

\* lo <= x <= hi for a score x and whole numbers lo, hi.
Within(x, lo, hi) == RLe(Whole(lo), x) /\ RLe(x, Whole(hi))

\* C1: calculate_ats_score returns an integer total_score with
\* 0 <= total_score <= 100, and the analyzer scores it is built from satisfy
\* 0 <= keyword_score <= 50, 0 <= formatting_score <= 25, 0 <= skill_score <= 25
\* and 0 <= experience_score <= 25, even when their sum exceeds 100.
C1_ScoreRanges ==
  ATSCalled =>
    /\ ret[1].total_score \in 0..100
    /\ Within(analyzed.keyword.score, 0, 50)
    /\ Within(analyzed.formatting.score, 0, 25)
    /\ Within(analyzed.skill.score, 0, 25)
    /\ Within(analyzed.experience.score, 0, 25)

\* The four analyzer scores sum to more than 100 and the total is 100.
C1_Witness ==
  /\ ATSCalled
  /\ RLt(Whole(100), AnalyzerSum)
  /\ ret[1].total_score = 100

\* C2: total_score equals round(clamp(keyword_score + formatting_score +
\* skill_score + experience_score, 0, 100)) over the unrounded analyzer scores,
\* round being Python's round (ties to the even integer).
C2_TotalIsRoundedClampedSum ==
  ATSCalled =>
    ret[1].total_score = Round(RMin(RMax(AnalyzerSum, Whole(0)), Whole(100)))

\* A sum below 100 that is no whole number and is rounded up.
C2_Witness ==
  /\ ATSCalled
  /\ RLt(AnalyzerSum, Whole(100))
  /\ AnalyzerSum.den # 1
  /\ RLt(AnalyzerSum, Whole(ret[1].total_score))

\* The grade intervals as stated: 85..100, 70..84, 55..69, 40..54, 0..39.
StatedGrades ==
  << [scores |-> 85..100, grade |-> "A", grade_text |-> "Excellent"],
     [scores |-> 70..84, grade |-> "B", grade_text |-> "Good"],
     [scores |-> 55..69, grade |-> "C", grade_text |-> "Average"],
     [scores |-> 40..54, grade |-> "D", grade_text |-> "Needs Improvement"],
     [scores |-> 0..39, grade |-> "F", grade_text |-> "Poor"] >>

\* A > B > C > D > F
GradeRank(grade) ==
  CASE grade = "A" -> 5 [] grade = "B" -> 4 [] grade = "C" -> 3 [] grade = "D" -> 2
    [] grade = "F" -> 1

\* Every score of 0..100 lies in exactly one interval, the if/elif chain gives
\* that interval's grade, and a higher score never gives a lower grade.
GradeTable ==
  /\ \A s \in 0..100 :
       /\ Cardinality({k \in DOMAIN StatedGrades : s \in StatedGrades[k].scores}) = 1
       /\ \A k \in DOMAIN StatedGrades :
            s \in StatedGrades[k].scores =>
              GradeOf(s) = [grade |-> StatedGrades[k].grade,
                            grade_text |-> StatedGrades[k].grade_text]
  /\ \A a, b \in 0..100 :
       a <= b => GradeRank(GradeOf(a).grade) <= GradeRank(GradeOf(b).grade)
  /\ GradeOf(85).grade = "A"
  /\ GradeOf(84).grade = "B"

\* C3: the grade and grade text returned by calculate_ats_score are those of the
\* interval that holds total_score (>= 85 'A'/'Excellent', 70..84 'B'/'Good',
\* 55..69 'C'/'Average', 40..54 'D'/'Needs Improvement', 0..39 'F'/'Poor'); the
\* intervals cover 0..100 exactly once, a higher total_score never yields a lower
\* grade, and 85 gives 'A', 84 gives 'B'.
C3_GradeOfTotal ==
  /\ GradeTable
  /\ ATSCalled =>
       \E k \in DOMAIN StatedGrades :
         /\ ret[1].total_score \in StatedGrades[k].scores
         /\ ret[1].grade = StatedGrades[k].grade
         /\ ret[1].grade_text = StatedGrades[k].grade_text

\* A total of exactly 85 is graded 'A'.
C3_Witness ==
  /\ ATSCalled
  /\ ret[1].total_score = 85
  /\ ret[1].grade = "A"
  /\ ret[1].grade_text = "Excellent"

\* C4: each of the four breakdown sub-scores of the result of calculate_ats_score
\* lies in [0, 25].
C4_BreakdownWithin25 ==
  ATSCalled =>
    /\ Within(ret[1].breakdown.keyword_score, 0, 25)
    /\ Within(ret[1].breakdown.formatting_score, 0, 25)
    /\ Within(ret[1].breakdown.skill_score, 0, 25)
    /\ Within(ret[1].breakdown.experience_score, 0, 25)

\* The suggestions of the three analyzers that make them, in the stated order.
StatedSuggestions ==
  analyzed.formatting.details.suggestions \o analyzed.skill.details.recommendations
    \o analyzed.experience.details.suggestions

\* C13: the suggestions of the result are the first 10 elements of the formatting
\* suggestions followed by the skill recommendations followed by the experience
\* suggestions: never more than 10, and nothing the keyword analyzer produced.
C13_Suggestions ==
  ATSCalled =>
    LET listed == ret[1].suggestions
    IN  /\ Len(listed) = IntMin(Len(StatedSuggestions), 10)
        /\ \A k \in DOMAIN listed : listed[k] = StatedSuggestions[k]
        /\ Len(listed) <= 10
        /\ Range(listed) \subseteq
             Range(analyzed.formatting.details.suggestions)
               \cup Range(analyzed.skill.details.recommendations)
               \cup Range(analyzed.experience.details.suggestions)

\* 7 formatting suggestions, 3 skill recommendations and 2 experience suggestions:
\* the result holds the first 10, the last of them a skill recommendation.
C13_Witness ==
  /\ ATSCalled
  /\ Len(analyzed.formatting.details.suggestions) = 7
  /\ Len(analyzed.skill.details.recommendations) = 3
  /\ Len(analyzed.experience.details.suggestions) = 2
  /\ Len(ret[1].suggestions) = 10
  /\ ret[1].suggestions[10] = analyzed.skill.details.recommendations[3]

\* The job description's vocabulary (empty without a job description) that the
\* resume's vocabulary lacks.
StatedMissing ==
  IF Truthy(job_description)
  THEN (AlphabeticWords(job_description.str) \ KeywordCommonWords) \ AlphabeticWords(resume_text)
  ELSE {}

\* C14: the missing_keywords of the result are the first 15 of the keyword
\* analyzer's missing keywords, which are themselves at most 20: each is a word of
\* the job description's vocabulary that the resume's vocabulary lacks, and there
\* is none without a job description.
C14_MissingKeywords ==
  ATSCalled =>
    LET listed == analyzed.keyword.details.missing_keywords
        top == ret[1].missing_keywords
        missing == StatedMissing
    IN  /\ Len(listed) = IntMin(Cardinality(missing), 20)
        /\ Len(top) = IntMin(Len(listed), 15)
        /\ \A k \in DOMAIN top : top[k] = listed[k]
        /\ Range(top) \subseteq missing
        /\ Cardinality(Range(top)) = Len(top)
        /\ ~Truthy(job_description) => top = <<>>

\* 22 missing words: the keyword analyzer lists 20, the result 15.
C14_Witness ==
  /\ ATSCalled
  /\ Cardinality(StatedMissing) = 22
  /\ Len(analyzed.keyword.details.missing_keywords) = 20
  /\ Len(ret[1].missing_keywords) = 15

\* C15: calculate_ats_score returns a result for an empty resume text, an empty
\* skill list and a missing job description.  For resume_text = "" and
\* skills = [] the formatting analyzer applies the penalty for fewer than 200
\* words and the penalty for no bullets and suggests all 5 sections, skill_score
\* is 0, and total_score is a non-negative integer with grade 'F'.
C15_EmptyInputs ==
  /\ ATSCalled =>
       /\ DOMAIN ret[1] = {"total_score", "grade", "grade_text", "breakdown", "details",
                           "suggestions", "missing_keywords"}
       /\ ret[1].total_score \in Nat
  /\ (ATSCalled /\ resume_text = <<>> /\ skills = <<>>) =>
       /\ analyzed.formatting.score = Whole(25 - 5 - 2)
       /\ analyzed.formatting.details.suggestions =
            << "Add a 'Experience' section", "Add a 'Education' section",
               "Add a 'Skills' section", "Add a 'Summary' section",
               "Add a 'Objective' section",
               "Resume appears too short. Add more details about your experience.",
               "Use bullet points to list achievements and responsibilities" >>
       /\ analyzed.skill.score = Whole(0)
       /\ ret[1].breakdown.skill_score = Whole(0)
       /\ ret[1].total_score \in Nat
       /\ ret[1].grade = "F"

\* Empty text, no skill, no job description: 15 + 18 + 0 + 0 = 33, grade 'F'.
C15_Witness ==
  /\ ATSCalled
  /\ resume_text = <<>>
  /\ skills = <<>>
  /\ job_description = None
  /\ ret[1].total_score = 33
  /\ ret[1].grade = "F"

\* C16: two calls of calculate_ats_score with identical arguments return
\* identical results in every field, the capped lists of keywords included.
C16_SameResultTwice ==
  (called = "calculate_ats_score" /\ Len(ret) = 2) => ret[1] = ret[2]

-----------------------------------------------------------------------------
(* Claims about calculate_job_match.                                       *)

MatchCalled == called = "calculate_job_match"

\* The important keywords and the skills of the job description of the call, and
\* how many of them the resume text and the skill labels hold.
ImportantKeywords == important_keywords(lower(job_description.str))
JDSkills == jd_skills(lower(job_description.str))
MatchedKeywordCount(keywords) ==
  LET resume_lower == lower(resume_text)
  IN  Cardinality({w \in Range(keywords) : Contains(resume_lower, w)})
MatchedSkillCount(named) ==
  LET labels == {lower(skills[j]) : j \in DOMAIN skills}
  IN  Cardinality({s \in Range(named) : \E label \in labels : Contains(label, s)})

\* The percentages as stated, from the four counts.
StatedKeywordMatch(matched, important) == Rat(100 * matched, IntMax(important, 1))
StatedSkillMatch(matched, named) == IF named # 0 THEN Rat(100 * matched, named) ELSE Whole(50)
StatedOverallMatch(keyword_match, skill_match) ==
  Rat(6 * keyword_match.num * skill_match.den + 4 * skill_match.num * keyword_match.den,
      10 * keyword_match.den * skill_match.den)

\* r is x rounded to one decimal: a multiple of 1/10 at most 1/20 away from x.
RoundedToOneDecimal(r, x) ==
  /\ 10 % r.den = 0
  /\ RLe(RSub(x, Rat(1, 20)), r)
  /\ RLe(r, RAdd(x, Rat(1, 20)))

\* C5: keyword_match is |matched_keywords| / max(|important_keywords|, 1) * 100,
\* skill_match is |matched_skills| / |jd_skills| * 100 when the job description
\* names a skill and 50 otherwise, overall_match is
\* keyword_match * 0.6 + skill_match * 0.4; the result holds each of the three
\* rounded to one decimal, and 0 <= overall_match <= 100.
C5_MatchPercentages ==
  MatchCalled =>
    LET keywords == ImportantKeywords
        named == JDSkills
        keyword_match == StatedKeywordMatch(MatchedKeywordCount(keywords), Len(keywords))
        skill_match == StatedSkillMatch(MatchedSkillCount(named), Len(named))
    IN  /\ RoundedToOneDecimal(ret[1].keyword_match, keyword_match)
        /\ RoundedToOneDecimal(ret[1].skill_match, skill_match)
        /\ RoundedToOneDecimal(ret[1].overall_match,
                               StatedOverallMatch(keyword_match, skill_match))
        /\ Within(ret[1].overall_match, 0, 100)

\* 7 of 19 important keywords and 3 of 13 skills: 22.105.. + 9.230.. gives 31.3.
C5_Witness ==
  /\ MatchCalled
  /\ Len(ImportantKeywords) = 19
  /\ Len(JDSkills) = 13
  /\ Len(ret[1].matched_keywords) = 7
  /\ Len(ret[1].matched_skills) = 3
  /\ ret[1].keyword_match = Rat(368, 10)
  /\ ret[1].skill_match = Rat(231, 10)
  /\ ret[1].overall_match = Rat(313, 10)

\* The keys of a MatchResult.
MatchResultKeys ==
  {"overall_match", "match_level", "keyword_match", "skill_match", "matched_keywords",
   "missing_keywords", "matched_skills", "missing_skills", "recommendation"}

\* C17: with an empty job description calculate_job_match returns a full result:
\* no important keyword and no skill, keyword_match 0, skill_match the fallback
\* 50, the four lists empty, overall_match 20.0 and 'Low Match'.
C17_EmptyJobDescription ==
  (MatchCalled /\ job_description.str = <<>>) =>
    /\ DOMAIN ret[1] = MatchResultKeys
    /\ ImportantKeywords = <<>>
    /\ JDSkills = <<>>
    /\ ret[1].keyword_match = Whole(0)
    /\ ret[1].skill_match = Whole(50)
    /\ ret[1].matched_keywords = <<>>
    /\ ret[1].missing_keywords = <<>>
    /\ ret[1].matched_skills = <<>>
    /\ ret[1].missing_skills = <<>>
    /\ ret[1].overall_match = Whole(20)
    /\ ret[1].match_level = "Low Match"

\* An empty job description with a resume and skill labels that are not empty.
C17_Witness ==
  /\ MatchCalled
  /\ job_description.str = <<>>
  /\ resume_text # <<>>
  /\ skills # <<>>
  /\ ret[1].overall_match = Whole(20)
  /\ ret[1].match_level = "Low Match"

\* C18: an important keyword is matched iff it is a plain substring of the
\* lower-cased resume text and missing otherwise; the result holds the first 15
\* of the matched, the first 15 of the missing, the first 10 missing skills and
\* every matched skill, and the percentages count the whole lists.
C18_KeywordClassification ==
  MatchCalled =>
    LET keywords == ImportantKeywords
        named == JDSkills
        resume_lower == lower(resume_text)
        inside == {w \in Range(keywords) : Contains(resume_lower, w)}
        matched == Filter(keywords, inside)
        missing == Filter(keywords, Range(keywords) \ inside)
        matched_skill_count == MatchedSkillCount(named)
    IN  /\ Len(matched) + Len(missing) = Len(keywords)
        /\ ret[1].matched_keywords = Take(matched, 15)
        /\ ret[1].missing_keywords = Take(missing, 15)
        /\ Len(ret[1].matched_skills) = matched_skill_count
        /\ Len(ret[1].missing_skills) = IntMin(Len(named) - matched_skill_count, 10)
        /\ RoundedToOneDecimal(ret[1].keyword_match,
                               StatedKeywordMatch(Len(matched), Len(keywords)))
        /\ RoundedToOneDecimal(ret[1].skill_match,
                               StatedSkillMatch(matched_skill_count, Len(named)))

\* 17 of 19 keywords matched, 15 of them listed; 1 of 13 skills matched, 10 of
\* the 12 missing listed; keyword_match 89.5 counts all 17.
C18_Witness ==
  /\ MatchCalled
  /\ Len(ImportantKeywords) = 19
  /\ MatchedKeywordCount(ImportantKeywords) = 17
  /\ Len(ret[1].matched_keywords) = 15
  /\ Len(JDSkills) = 13
  /\ Len(ret[1].matched_skills) = 1
  /\ Len(ret[1].missing_skills) = 10
  /\ ret[1].keyword_match = Rat(895, 10)

\* The skill indicators that are substrings of the lower-cased job description,
\* and those of them that are substrings of a lower-cased skill label.
NamedSkills == {s \in Range(skill_indicators) : Contains(lower(job_description.str), s)}
HeldSkills ==
  LET labels == {lower(skills[j]) : j \in DOMAIN skills}
  IN  {s \in NamedSkills : \E label \in labels : Contains(label, s)}

\* C19: a skill indicator is a JD skill iff it is a substring of the lower-cased
\* job description; a JD skill is matched iff it is a substring of a lower-cased
\* skill label and missing otherwise, so matched and missing skills are disjoint
\* and together the JD skills (missing_skills holds the first 10 of the missing).
C19_SkillClassification ==
  MatchCalled =>
    LET named == NamedSkills
        held == HeldSkills
        skill_list == JDSkills
    IN  /\ Range(skill_list) = named
        /\ Len(skill_list) = Cardinality(named)
        /\ Range(ret[1].matched_skills) = held
        /\ Len(ret[1].matched_skills) = Cardinality(held)
        /\ ret[1].missing_skills = Take(Filter(skill_list, named \ held), 10)
        /\ Range(ret[1].matched_skills) \cap Range(ret[1].missing_skills) = {}
        /\ Cardinality(named \ held) <= 10 =>
             Range(ret[1].matched_skills) \cup Range(ret[1].missing_skills) = named

\* 'Java sql react engineer' with the labels 'SQL' and 'engineers': sql is
\* matched, java and react are missing.
C19_Witness ==
  /\ MatchCalled
  /\ NamedSkills = {skill_indicators[2], W_sql, skill_indicators[4]}
  /\ ret[1].matched_skills = <<W_sql>>
  /\ ret[1].missing_skills = <<skill_indicators[2], skill_indicators[4]>>

\* The words of the job description that are no stop words, in text order.
JDTokens ==
  LET found == FindAllWords(lower(job_description.str))
  IN  Filter(found, Range(found) \ MatchCommonWords)

\* C20: important_keywords are the 30 most frequent distinct non-stop-word
\* tokens of the job description, all of them when there are fewer: none twice,
\* no token left out more frequent than one included, and tokens ranked by
\* falling frequency, those of equal frequency in first-seen order.
C20_ImportantKeywords ==
  MatchCalled =>
    LET tokens == JDTokens
        keywords == ImportantKeywords
        distinct == Range(tokens)
        count == [w \in distinct |-> Cardinality({j \in DOMAIN tokens : tokens[j] = w})]
        first == [w \in distinct |->
                    CHOOSE j \in DOMAIN tokens :
                      tokens[j] = w /\ \A i \in 1..(j - 1) : tokens[i] # w]
        Ahead(v, w) == count[v] > count[w] \/ (count[v] = count[w] /\ first[v] < first[w])
    IN  /\ Range(keywords) \subseteq distinct
        /\ Len(keywords) = IntMin(Cardinality(distinct), 30)
        /\ Cardinality(Range(keywords)) = Len(keywords)
        /\ \A w \in distinct \ Range(keywords) : \A v \in Range(keywords) :
             count[w] <= count[v] /\ Ahead(v, w)
        /\ \A i, j \in DOMAIN keywords : i < j => Ahead(keywords[i], keywords[j])
        /\ Range(ret[1].matched_keywords) \cup Range(ret[1].missing_keywords)
             \subseteq Range(keywords)

\* MaxJDDistinct distinct tokens, the last said three times, the one before it and
\* the second twice: these three lead the 30 keywords in this order.
C20_Witness ==
  /\ MatchCalled
  /\ Cardinality(Range(JDTokens)) = MaxJDDistinct
  /\ Len(JDTokens) = MaxJDDistinct + 4
  /\ Len(ImportantKeywords) = 30
  /\ ImportantKeywords[1] = JDVocabulary[MaxJDDistinct]
  /\ ImportantKeywords[2] = JDVocabulary[2]
  /\ ImportantKeywords[3] = JDVocabulary[MaxJDDistinct - 1]

\* The tier of an overall_match as stated.
StatedTier(overall_match) ==
  IF RLe(Whole(75), overall_match) THEN "Strong Match"
  ELSE IF RLe(Whole(50), overall_match) THEN "Moderate Match"
  ELSE IF RLe(Whole(30), overall_match) THEN "Partial Match"
  ELSE "Low Match"

\* C6: the match_level of the result of calculate_job_match is the tier of the
\* overall_match the result holds: >= 75 'Strong Match', >= 50 and < 75
\* 'Moderate Match', >= 30 and < 50 'Partial Match', < 30 'Low Match'.
C6_TierOfReturnedOverall ==
  MatchCalled => ret[1].match_level = StatedTier(ret[1].overall_match)

-----------------------------------------------------------------------------
(* Claims about calculate_experience_quality.                              *)

ExperienceCalled == called = "calculate_experience_quality"

\* The occurrences of a stem in the lower-cased text from position i on, counted
\* from the left, an occurrence that shares a letter with a counted one left out.
RECURSIVE StemOccurrences(_, _, _)
StemOccurrences(tl, stem, i) ==
  IF i > Len(tl) THEN 0
  ELSE IF LiteralAt(tl, i, stem) THEN 1 + StemOccurrences(tl, stem, i + Len(stem))
  ELSE StemOccurrences(tl, stem, i + 1)

RECURSIVE StemsFrom(_, _)
StemsFrom(tl, k) ==
  IF k > Len(result_patterns) THEN 0
  ELSE StemOccurrences(tl, result_patterns[k].stem, 1) + StemsFrom(tl, k + 1)

\* The number of case-insensitive occurrences of the result-oriented word stems.
ResultOccurrences(t) == StemsFrom(lower(t), 1)

\* min(n / 5, 1) * points
CappedFifths(n, points) == IF n >= 5 THEN Whole(points) ELSE Rat(points * n, 5)

\* C11: the score of calculate_experience_quality is built from
\* metrics_score = min(total_metrics_found / 5, 1) * 15, total_metrics_found
\* being the total number of achievement matches over the 7 pattern families
\* (the limit of 3 per family applies to the recorded samples only).
C11_MetricsScoreFromTotal ==
  ExperienceCalled =>
    ret[1].score =
      RMin(RAdd(CappedFifths(ret[1].details.achievements, 15),
                CappedFifths(ResultOccurrences(resume_text), 10)),
           Whole(25))

\* C12: calculate_experience_quality returns min(metrics_score + result_bonus, 25)
\* with result_bonus = min(result_count / 5, 1) * 10, result_count being the
\* number of case-insensitive occurrences of the result stems and metrics_score
\* the score of the recorded metrics; it suggests quantifiable achievements iff
\* no metric was found and result-oriented language iff result_count < 3.
C12_ExperienceScore ==
  ExperienceCalled =>
    LET result_count == ResultOccurrences(resume_text)
        details == ret[1].details
        suggested == Range(details.suggestions)
    IN  /\ ret[1].score =
             RMin(RAdd(CappedFifths(Len(details.metrics_found), 15),
                       CappedFifths(result_count, 10)),
                  Whole(25))
        /\ ("Add quantifiable achievements (e.g., 'Increased sales by 25%')" \in suggested)
             <=> (details.achievements = 0)
        /\ ("Use more result-oriented language to describe achievements" \in suggested)
             <=> (result_count < 3)
        /\ Len(details.suggestions) = Cardinality(suggested)
        /\ Cardinality(suggested) = (IF details.achievements = 0 THEN 1 ELSE 0)
                                     + (IF result_count < 3 THEN 1 ELSE 0)

\* Seven result words (the bonus capped at 10) and two recorded metrics: 6 + 10.
C12_Witness ==
  /\ ExperienceCalled
  /\ ResultOccurrences(resume_text) = 7
  /\ Len(ret[1].details.metrics_found) = 2
  /\ ret[1].details.suggestions = <<>>
  /\ ret[1].score = Whole(16)

-----------------------------------------------------------------------------
(* app.py: the page handlers of one UI session, and the calls they make.   *)

\* The page runs of one session, and the files of one batch upload.
MaxReruns == 3
MaxBatchFiles == 11

\* Two resumes that can be read, and files whose text cannot be extracted: a PDF
\* of blank pages, a PDF and a DOCX the libraries cannot read, a DOCX without
\* text, and two files of other formats.
ResumeFiles ==
  LET text_a == <<"S","k","i","l","l","s",":"," ","P","y","t","h","o","n",","," ","S","Q","L",".">>
      text_b == <<"L","e","d"," ","5"," ","R","e","a","c","t"," ","p","r","o","j","e","c","t","s">>
      cloud == <<" ","o","n"," ","A","W","S"," ">>
      name(base, ext) == base \o <<".">> \o ext
      pdf == <<"p","d","f">>
      docx == <<"d","o","c","x">>
  IN  << UploadedFile(name(<<"a">>, pdf), TRUE, <<text_a, <<>>, <<" ">>>>),
         UploadedFile(name(<<"B">>, upper(docx)), TRUE, <<text_b, <<" ">>, cloud>>),
         UploadedFile(name(<<"s","c","a","n">>, pdf), TRUE, <<<<" ">>, <<>>, <<"\n">>>>),
         UploadedFile(name(<<"b","a","d">>, pdf), FALSE, <<>>),
         UploadedFile(name(<<"b","a","d">>, docx), FALSE, <<>>),
         UploadedFile(name(<<"e","m","p","t","y">>, docx), TRUE, <<<<" ">>>>),
         UploadedFile(name(<<"o","l","d">>, <<"d","o","c">>), TRUE, <<text_a>>),
         UploadedFile(<<"p","d","f">>, TRUE, <<text_a>>) >>

\* The job descriptions typed into the job matcher: none, and two that name
\* skills of the one and of the other resume.
TypedJobDescriptions ==
  { <<>>,
    Join(<<Capitalize(W_python), W_sql, OtherJDWords[1]>>, Space),
    Join(<<SKILL_KEYWORDS[17], W_aws, OtherJDWords[1]>>, Space) }

\* The batch uploads: the first n files (by their place in ResumeFiles) of the
\* resume files said over and over.
BatchUploads ==
  {[k \in 1..n |-> ((k - 1) % Len(ResumeFiles)) + 1] : n \in {0, 1, 3, 10, MaxBatchFiles}}

\* ParseAndScore with the score of the text alone.
ParseAndScoreWithoutSkills(file, seed) ==
  LET parsed == parse_resume(file, seed)
  IN  [raised |-> parsed.raised, error |-> parsed.error, data |-> parsed.data,
       ats_result |->
         IF parsed.raised THEN <<>>
         ELSE <<calculate_ats_score(parsed.data[1].raw_text, <<>>, None, seed)>>]

\* What the upload page and the batch page do with a file (app.py:420-427,
\* 1094-1098): parse_resume, and calculate_ats_score of its text and skills
\* when it raised nothing.
ParseAndScore(file, seed) ==
  LET parsed == parse_resume(file, seed)
  IN  [raised |-> parsed.raised, error |-> parsed.error, data |-> parsed.data,
       ats_result |->
         IF parsed.raised THEN <<>>
         ELSE <<calculate_ats_score(parsed.data[1].raw_text, parsed.data[1].skills, None, seed)>>]

\* One file of a batch (app.py:1092-1112): a score entry, or an error entry.
BatchEntry(file, parsed) ==
  LET filename == file.name
  IN  IF parsed.raised THEN [filename |-> filename, error |-> parsed.error]
      ELSE LET resume_data == parsed.data[1]
               ats_result == parsed.ats_result[1]
           IN  [filename |-> filename,
                ats_score |-> ats_result.total_score,
                grade |-> ats_result.grade,
                skills_count |-> Len(resume_data.skills),
                skills |-> Take(resume_data.skills, 10),
                suggestions |-> Take(ats_result.suggestions, 3)]

InitApp ==
  /\ resume_text = <<>>
  /\ skills = <<>>
  /\ job_description = None
  /\ hash_seed \in 1..HashSeeds
  /\ called = "none"
  /\ analyzed = <<>>
  /\ ret = <<>>
  /\ files = [k \in DOMAIN ResumeFiles |-> ParseAndScore(ResumeFiles[k], hash_seed)]
  /\ session_state = InitialSessionState
  /\ db \in {DatabaseManager(available) : available \in BOOLEAN}
  /\ ai \in {AIService(has_key) : has_key \in BOOLEAN}
  /\ ui = InitialUI
  /\ pc = "idle"
  /\ running = <<>>

Scorer == <<resume_text, skills, job_description, hash_seed, called, analyzed, ret, files>>

\* A page is run: the script runs from the top with the widgets' values.
PageRun(handler) ==
  [ui EXCEPT !.handler = handler, !.reruns = @ + 1, !.message = "", !.error = "",
             !.uploaded_file = <<>>, !.job_description = <<>>]

\* A save method is entered (database.py:105-109, 130-134, 154-158).
EnterSave(method) ==
  IF db.available
  THEN db' = SessionOpened(db, method) /\ pc' = "body"
  ELSE db' = SaveUnavailable(db, method) /\ pc' = "return"

\* resume_analyzer_page with an uploaded file (app.py:409-450).
UploadResume ==
  /\ pc = "idle"
  /\ ui.reruns < MaxReruns
  /\ \E k \in DOMAIN ResumeFiles :
       LET file == ResumeFiles[k]
           parsed == files[k]
           run == [PageRun("resume_analyzer_page") EXCEPT !.uploaded_file = <<file>>]
       IN  IF parsed.raised
           THEN /\ ui' = [run EXCEPT !.message = "Error analyzing resume", !.error = parsed.error]
                /\ UNCHANGED <<session_state, db, pc>>
           ELSE LET resume_data == parsed.data[1]
                    ats_result == parsed.ats_result[1]
                IN  /\ session_state' = [session_state EXCEPT !.resume_data = <<resume_data>>,
                                                              !.ats_result = <<ats_result>>]
                    /\ ui' = [run EXCEPT !.ats_calls = @ + 1]
                    /\ EnterSave("save_resume_analysis")
  /\ UNCHANGED <<Scorer, ai, running>>

\* job_matcher_page with the button pressed (app.py:554-601).
AnalyzeMatch ==
  /\ pc = "idle"
  /\ ui.reruns < MaxReruns
  /\ \E typed \in TypedJobDescriptions :
       LET run == [PageRun("job_matcher_page") EXCEPT !.job_description = typed]
       IN  IF session_state.resume_data = <<>>
           THEN /\ ui' = [run EXCEPT !.message = "Please upload your resume first"]
                /\ UNCHANGED <<session_state, db, pc>>
           ELSE IF typed = <<>>
           THEN /\ ui' = [run EXCEPT !.message = "Please enter a job description to analyze."]
                /\ UNCHANGED <<session_state, db, pc>>
           ELSE LET resume_data == session_state.resume_data[1]
                    match_result ==
                      calculate_job_match(resume_data.raw_text, resume_data.skills, typed)
                IN  /\ session_state' = [session_state EXCEPT !.job_match_result = <<match_result>>]
                    /\ ui' = [run EXCEPT !.match_calls = @ + 1]
                    /\ EnterSave("save_job_match")
  /\ UNCHANGED <<Scorer, ai, running>>

\* career_roadmap_page with the button pressed (app.py:695-739).
GenerateRoadmap ==
  /\ pc = "idle"
  /\ ui.reruns < MaxReruns
  /\ \E target_role \in {"", "Engineering Manager"}, response \in ServiceResponses :
       IF session_state.resume_data = <<>>
       THEN /\ ui' = [PageRun("career_roadmap_page") EXCEPT
                        !.message = "Please upload your resume first"]
            /\ UNCHANGED <<session_state, db, ai, pc>>
       ELSE LET generated ==
                  generate_career_roadmap(ai, session_state.resume_data[1], target_role, response)
            IN  /\ ai' = [ai EXCEPT !.calls = @ + generated.requests]
                /\ IF generated.raised
                   THEN /\ ui' = [PageRun("career_roadmap_page") EXCEPT !.error = "exception"]
                        /\ UNCHANGED <<session_state, db, pc>>
                   ELSE /\ session_state' = [session_state EXCEPT !.roadmap_data = generated.roadmap]
                        /\ ui' = PageRun("career_roadmap_page")
                        /\ EnterSave("save_career_roadmap")
  /\ UNCHANGED <<Scorer, running>>

\* The page without the limit: every uploaded file is processed.
every_file(uploaded_files) == uploaded_files

\* if len(uploaded_files) > 10: uploaded_files = uploaded_files[:10] (app.py:1081-1083).
first_files(uploaded_files) ==
  IF Len(uploaded_files) > 10 THEN Take(uploaded_files, 10) ELSE uploaded_files

\* batch_analysis_page with files uploaded and the button pressed (app.py:1080-1119).
BatchAnalyze ==
  /\ pc = "idle"
  /\ ui.reruns < MaxReruns
  /\ \E uploaded \in BatchUploads :
       /\ uploaded # <<>>
       /\ LET uploaded_files == first_files(uploaded)
              results ==
                [k \in DOMAIN uploaded_files |->
                   BatchEntry(ResumeFiles[uploaded_files[k]], files[uploaded_files[k]])]
          IN  /\ session_state' = [session_state EXCEPT !.batch_results = results]
              /\ ui' = [PageRun("batch_analysis_page") EXCEPT
                          !.uploaded_file = [k \in DOMAIN uploaded |-> ResumeFiles[uploaded[k]]],
                          !.message = "Analyzed", !.ats_calls = @ + Len(uploaded_files)]
  /\ UNCHANGED <<Scorer, db, ai, pc, running>>

\* `with self.get_session() as session:` entered by another caller than the
\* save methods (database.py:82-91): a session is opened, or None is yielded.
UseSession ==
  /\ pc = "idle"
  /\ ui.reruns < MaxReruns
  /\ ui' = PageRun("get_session")
  /\ IF db.available
     THEN db' = SessionOpened(db, "get_session")
     ELSE db' = [SaveUnavailable(db, "get_session") EXCEPT !.session = "None", !.returned = <<>>]
  /\ pc' = "body"
  /\ UNCHANGED <<Scorer, session_state, ai, running>>

\* The body of the with block: the row is built and added, or an exception is
\* raised; with None for a session the body of the other caller does either.
SessionBody ==
  /\ pc = "body"
  /\ \E raises \in BOOLEAN :
       IF db.session = "None"
       THEN /\ db' = [db EXCEPT !.raised = raises, !.propagated = raises]
            /\ pc' = "return"
       ELSE IF raises
       THEN /\ db' = [db EXCEPT !.raised = TRUE]
            /\ pc' = "rollback"
       ELSE /\ db' = [db EXCEPT !.pending = Append(@, db.caller), !.events = Append(@, "add")]
            /\ pc' = "commit"
  /\ UNCHANGED <<Scorer, session_state, ai, ui, running>>

\* session.commit() (database.py:92), which may raise.
SessionCommit ==
  /\ pc = "commit"
  /\ \E raises \in BOOLEAN :
       IF raises
       THEN /\ db' = [db EXCEPT !.events = Append(@, "commit"), !.raised = TRUE]
            /\ pc' = "rollback"
       ELSE /\ db' = [db EXCEPT !.events = Append(@, "commit"), !.rows = @ \o db.pending,
                                !.pending = <<>>]
            /\ pc' = "close"
  /\ UNCHANGED <<Scorer, session_state, ai, ui, running>>

\* get_session without its except clause: the exception goes to finally.
SessionNotRolledBack ==
  /\ pc = "rollback"
  /\ db' = db
  /\ pc' = "close"
  /\ UNCHANGED <<Scorer, session_state, ai, ui, running>>

\* except Exception: session.rollback(); raise e (database.py:93-95).
SessionRollback ==
  /\ pc = "rollback"
  /\ db' = [db EXCEPT !.events = Append(@, "rollback"), !.pending = <<>>]
  /\ pc' = "close"
  /\ UNCHANGED <<Scorer, session_state, ai, ui, running>>

\* finally: session.close() (database.py:96-97), and the end of the caller: a
\* save method returns, from another caller the exception goes on.
SessionClose ==
  /\ pc = "close"
  /\ LET ended == IF db.caller \in SaveMethods THEN save_returns(db.raised)
                  ELSE [returned |-> <<>>, propagated |-> db.raised]
     IN  db' = [db EXCEPT !.events = Append(@, "close"), !.session = "closed",
                          !.returned = ended.returned, !.propagated = ended.propagated]
  /\ pc' = "return"
  /\ UNCHANGED <<Scorer, session_state, ai, ui, running>>

\* The rest of the handler after the save (app.py:442-450, 597-599, 737-739):
\* the upload page reports success, or the error that reached its except clause.
FinishHandler ==
  /\ pc = "return"
  /\ ui' = [ui EXCEPT !.message =
              IF ui.handler # "resume_analyzer_page" THEN @
              ELSE IF db.propagated THEN "Error analyzing resume"
              ELSE "Resume analyzed successfully!"]
  /\ pc' = "idle"
  /\ UNCHANGED <<Scorer, session_state, db, ai, running>>

\* One UI session: resume uploads, job matches and roadmaps, with their saves.
SpecApp ==
  InitApp /\ [][UploadResume \/ AnalyzeMatch \/ GenerateRoadmap
                 \/ SessionBody \/ SessionCommit \/ SessionRollback \/ SessionClose
                 \/ FinishHandler]_vars

\* The resume uploads of one UI session.
SpecUpload ==
  InitApp /\ [][UploadResume
                 \/ SessionBody \/ SessionCommit \/ SessionRollback \/ SessionClose
                 \/ FinishHandler]_vars

\* Resume uploads and batch analyses in one UI session.
SpecBatch ==
  InitApp /\ [][UploadResume \/ BatchAnalyze
                 \/ SessionBody \/ SessionCommit \/ SessionRollback \/ SessionClose
                 \/ FinishHandler]_vars

\* The uses of get_session: by a save method, and by another caller.
SpecDatabase ==
  InitApp /\ [][UploadResume \/ UseSession
                 \/ SessionBody \/ SessionCommit \/ SessionRollback \/ SessionClose
                 \/ FinishHandler]_vars

-----------------------------------------------------------------------------
(* Claims about the resume analyzer page.                                  *)

\* Every character of every part is white space.
BlankParts(parts) == \A k \in DOMAIN parts : \A i \in DOMAIN parts[k] : parts[k][i] \in Whitespace

\* The text of the file cannot be extracted: its name ends in neither .pdf nor
\* .docx (in any letter case), its content cannot be read, or what is read is blank.
ExtractionFails(file) ==
  \/ ~(endswith(lower(file.name), <<".","p","d","f">>)
        \/ endswith(lower(file.name), <<".","d","o","c","x">>))
  \/ ~file.readable
  \/ BlankParts(file.parts)

\* C22: when the text of the uploaded file cannot be extracted, the resume
\* analyzer page reports an error, does not call calculate_ats_score, saves
\* nothing and leaves the session's resume_data and ats_result as they were.
C22_ExtractionFailureReported ==
  [][(/\ pc = "idle"
      /\ ui'.handler = "resume_analyzer_page"
      /\ ui'.reruns = ui.reruns + 1
      /\ ExtractionFails(ui'.uploaded_file[1]))
     => (/\ ui'.message = "Error analyzing resume"
         /\ ui'.error # ""
         /\ ui'.ats_calls = ui.ats_calls
         /\ db' = db
         /\ pc' = "idle"
         /\ session_state' = session_state)]_vars

\* A DOCX that cannot be read is uploaded after a resume was analyzed: the error
\* is shown and the resume stays.
C22_Witness ==
  /\ pc = "idle"
  /\ ui.handler = "resume_analyzer_page"
  /\ ui.uploaded_file # <<>>
  /\ ~ui.uploaded_file[1].readable
  /\ ui.error = "Failed to extract text from DOCX"
  /\ ui.message = "Error analyzing resume"
  /\ session_state.resume_data # <<>>
  /\ session_state.ats_result # <<>>


\* C26: the session's resume_data and ats_result are both unset or both set, and
\* when set the text of resume_data is not blank and ats_result is
\* calculate_ats_score of its raw_text and skills.
C26_ResumeAndScoreTogether ==
  LET resume_data == session_state.resume_data
      ats_result == session_state.ats_result
  IN  /\ (resume_data = <<>>) <=> (ats_result = <<>>)
      /\ resume_data # <<>> =>
           /\ \E i \in DOMAIN resume_data[1].raw_text : resume_data[1].raw_text[i] \notin Whitespace
           /\ ats_result[1] =
                calculate_ats_score(resume_data[1].raw_text, resume_data[1].skills, None, hash_seed)

\* A second resume was analyzed after a first one, then a failing upload: the
\* session holds the second resume and its score.
C26_Witness ==
  /\ pc = "idle"
  /\ ui.reruns = 3
  /\ ui.message = "Error analyzing resume"
  /\ session_state.resume_data # <<>>
  /\ Range(session_state.resume_data[1].skills) = {Capitalize(SKILL_KEYWORDS[17]), Capitalize(W_aws)}
  /\ db.rows = <<"save_resume_analysis", "save_resume_analysis">>
  /\ session_state.ats_result # <<>>


-----------------------------------------------------------------------------
(* Claims about the job matcher page.                                      *)

\* C27: a job_match_result that is set was computed from the resume now stored in
\* resume_data, for some job description that was typed; and calculate_job_match
\* has only been invoked (the job matcher page went on to its save) with a resume
\* present and a non-empty job description.
C27_MatchOfCurrentResume ==
  /\ session_state.job_match_result # <<>> =>
       /\ session_state.resume_data # <<>>
       /\ \E typed \in TypedJobDescriptions \ {<<>>} :
            session_state.job_match_result[1] =
              calculate_job_match(session_state.resume_data[1].raw_text,
                                  session_state.resume_data[1].skills, typed)
  /\ ui.handler = "job_matcher_page" /\ pc # "idle" =>
       /\ session_state.resume_data # <<>>
       /\ ui.job_description # <<>>

-----------------------------------------------------------------------------
(* Claims about the database manager.                                      *)

\* The result the page last run stored in the session state before its save.
StoredResult ==
  IF ui.handler = "resume_analyzer_page"
  THEN \E k \in DOMAIN ResumeFiles :
         /\ ui.uploaded_file = <<ResumeFiles[k]>>
         /\ session_state.resume_data = files[k].data
         /\ session_state.ats_result = files[k].ats_result
  ELSE IF ui.handler = "job_matcher_page"
  THEN session_state.job_match_result =
         <<calculate_job_match(session_state.resume_data[1].raw_text,
                               session_state.resume_data[1].skills, ui.job_description)>>
  ELSE session_state.roadmap_data # <<>>

\* C24: a save method has returned (it never lets an exception out): False when
\* the database is unavailable or an error occurred while adding or committing,
\* True only with its row committed by a commit that was not rolled back; and
\* whatever it returned, the session state holds the result of the page.
C24_SaveNeverRaises ==
  pc = "return" /\ db.caller \in SaveMethods =>
    /\ ~db.propagated
    /\ db.returned \in {<<TRUE>>, <<FALSE>>}
    /\ ~db.available \/ db.raised => db.returned = <<FALSE>>
    /\ db.returned = <<TRUE>> =>
         /\ db.events = <<"open", "add", "commit", "close">>
         /\ db.rows # <<>> /\ db.rows[Len(db.rows)] = db.caller
         /\ db.pending = <<>>
    /\ StoredResult

\* A committed resume analysis, then a job match whose commit raised.
C24_Witness ==
  /\ pc = "return"
  /\ db.caller = "save_job_match"
  /\ db.rows = <<"save_resume_analysis">>
  /\ db.events = <<"open", "add", "commit", "rollback", "close">>
  /\ db.returned = <<FALSE>>
  /\ session_state.job_match_result # <<>>
  /\ session_state.job_match_result[1].matched_skills # <<>>

\* How often a call was made on the session.
Count(events, call) == Cardinality({i \in DOMAIN events : events[i] = call})

\* C29: when a use of get_session has ended, with an available database the
\* session was opened, committed exactly when the body finished without an
\* exception, rolled back exactly when the body or the commit raised, with the
\* exception leaving get_session (a save method catches it, from another caller it
\* goes on), and closed exactly once, last of all; with an unavailable database
\* no session was opened: another caller got None, and a save method did not
\* enter get_session.
C29_SessionLifecycle ==
  pc = "return" =>
    IF db.available
    THEN /\ db.session = "closed"
         /\ db.events[1] = "open" /\ Count(db.events, "open") = 1
         /\ Count(db.events, "close") = 1 /\ db.events[Len(db.events)] = "close"
         /\ Count(db.events, "commit") = Count(db.events, "add")
         /\ Count(db.events, "commit") \in {0, 1}
         /\ db.raised <=> Count(db.events, "rollback") = 1
         /\ ~db.raised <=> db.events = <<"open", "add", "commit", "close">>
         /\ db.raised => db.pending = <<>> /\ db.events[Len(db.events) - 1] = "rollback"
         /\ db.caller \notin SaveMethods => (db.propagated <=> db.raised)
    ELSE /\ db.events = <<>>
         /\ db.session = IF db.caller \in SaveMethods THEN "none" ELSE "None"

\* Another caller's commit raised after a save had committed a row: the session
\* was rolled back and closed, the row of the save stays, the exception goes on.
C29_Witness ==
  /\ pc = "return"
  /\ db.caller = "get_session"
  /\ db.rows = <<"save_resume_analysis">>
  /\ db.events = <<"open", "add", "commit", "rollback", "close">>
  /\ db.propagated

-----------------------------------------------------------------------------
(* Claims about the batch analysis page.                                   *)

\* C28: a batch run gives one entry for each of the first 10 uploaded files and
\* for no other, in upload order: for a file whose text cannot be extracted an
\* error entry, for any other the score entry the file gets when it is processed
\* alone, whatever happened to the files before it; and the run leaves the
\* session's resume_data, ats_result and job_match_result as they were.
C28_BatchRun ==
  [][ui'.handler = "batch_analysis_page" /\ ui'.reruns # ui.reruns =>
       LET uploaded == ui'.uploaded_file
           results == session_state'.batch_results
           processed == IF Len(uploaded) < 10 THEN Len(uploaded) ELSE 10
       IN  /\ Len(results) = processed
           /\ \A k \in 1..processed :
                /\ results[k].filename = uploaded[k].name
                /\ IF ExtractionFails(uploaded[k])
                   THEN /\ DOMAIN results[k] = {"filename", "error"}
                        /\ results[k].error # ""
                   ELSE \E j \in DOMAIN ResumeFiles :
                          /\ ResumeFiles[j] = uploaded[k]
                          /\ ~files[j].raised
                          /\ results[k] =
                               [filename |-> uploaded[k].name,
                                ats_score |-> files[j].ats_result[1].total_score,
                                grade |-> files[j].ats_result[1].grade,
                                skills_count |-> Len(files[j].data[1].skills),
                                skills |-> Take(files[j].data[1].skills, 10),
                                suggestions |-> Take(files[j].ats_result[1].suggestions, 3)]
           /\ session_state'.resume_data = session_state.resume_data
           /\ session_state'.ats_result = session_state.ats_result
           /\ session_state'.job_match_result = session_state.job_match_result
     ]_vars

\* After an upload, a batch of more than 10 files has been analyzed: 10 entries,
\* the third an error entry, the tenth a score entry.
C28_Witness ==
  /\ ui.handler = "batch_analysis_page"
  /\ Len(ui.uploaded_file) > 10
  /\ Len(session_state.batch_results) = 10
  /\ DOMAIN session_state.batch_results[3] = {"filename", "error"}
  /\ "ats_score" \in DOMAIN session_state.batch_results[10]
  /\ session_state.resume_data # <<>>

-----------------------------------------------------------------------------
(* Claims about the AI service.                                            *)

\* The skill lists of the resumes a roadmap is asked for: the labels
\* extract_skills gives for four keywords, in every combination.
RoadmapSkills ==
  LET pool == <<title(W_python), title(SKILL_KEYWORDS[17]), title(W_aws), title(W_sql)>>
  IN  {Filter(pool, S) : S \in SUBSET Range(pool)}

InitRoadmap ==
  /\ resume_text = <<>>
  /\ skills \in RoadmapSkills
  /\ job_description = None
  /\ hash_seed = 1
  /\ called = "none"
  /\ analyzed = <<>>
  /\ ret = <<>>
  /\ files = <<>>
  /\ session_state = InitialSessionState
  /\ db = DatabaseManager(FALSE)
  /\ ai \in {AIService(has_key) : has_key \in BOOLEAN}
  /\ ui = InitialUI
  /\ pc = "idle"
  /\ running = <<>>

\* One call of generate_career_roadmap, with what the service does with the
\* request if one is sent.
GenerateCareerRoadmap ==
  /\ called = "none"
  /\ \E target_role \in {"", "Engineering Manager"}, response \in ServiceResponses :
       LET generated == generate_career_roadmap(ai, [skills |-> skills], target_role, response)
       IN  /\ ret' = <<[target_role |-> target_role, response |-> response,
                        raised |-> generated.raised, roadmap |-> generated.roadmap]>>
           /\ ai' = [ai EXCEPT !.calls = @ + generated.requests]
  /\ called' = "generate_career_roadmap"
  /\ UNCHANGED <<resume_text, skills, job_description, hash_seed, analyzed,
                 files, session_state, db, ui, pc, running>>

SpecRoadmap == InitRoadmap /\ [][GenerateCareerRoadmap]_vars

\* C23: generate_career_roadmap has returned a roadmap and raised nothing:
\* without a client no request was sent; without a client, and when the request
\* raised or its content could not be parsed, the roadmap is the fallback
\* roadmap, the one a service without a client returns for the same resume and
\* target role, with the target role asked for or else the first next role.
C23_RoadmapAlwaysReturned ==
  called = "generate_career_roadmap" =>
    LET r == ret[1]
        fallback == generate_career_roadmap(AIService(FALSE), [skills |-> skills],
                                            r.target_role, "json object").roadmap
    IN  /\ ~r.raised
        /\ r.roadmap # <<>>
        /\ ~ai.client => ai.calls = 0
        /\ ~ai.client \/ r.response # "json object" =>
             /\ r.roadmap = fallback
             /\ r.roadmap[1].target_role =
                  IF r.target_role # "" THEN r.target_role ELSE r.roadmap[1].next_roles[1]
             /\ Len(r.roadmap[1].next_roles) = 3

\* With a client, the content of the response was no JSON: the fallback roadmap
\* of a resume with React and Aws, after one request.
C23_Witness ==
  /\ called = "generate_career_roadmap"
  /\ ai.client /\ ai.calls = 1
  /\ ret[1].response = "not json"
  /\ skills = <<title(SKILL_KEYWORDS[17]), title(W_aws)>>
  /\ ret[1].roadmap # <<>>
  /\ ret[1].roadmap[1].target_role = "Senior Developer"

-----------------------------------------------------------------------------
(* The one ATSScorer of init_services (app.py:32-41), called by several    *)
(* requests at a time.                                                     *)

\* The scoring requests running side by side.
MaxRequests == 2

\* The four analyzers, in the order calculate_ats_score calls them.
AnalyzerNames == <<"keyword", "formatting", "skill", "experience">>

\* The arguments of request r: requests differ in text, skills and job description.
ConcurrentInput(r) ==
  [text |-> ATSText(IF r % 2 = 1 THEN 5 ELSE 0, r % 3, 0, r % 2, IF r % 2 = 0 THEN 3 ELSE 0),
   skills |-> First(SkillPool, 3 * r),
   jd |-> IF r % 2 = 0 THEN Some(Join(<<Capitalize(W_python), W_docker>>, Space)) ELSE None]

\* One analyzer called with the arguments of a frame.
call_analyzer(name, frame, seed) ==
  CASE name = "keyword" -> calculate_keyword_score(frame.text, frame.jd, seed)
    [] name = "formatting" -> calculate_formatting_score(frame.text)
    [] name = "skill" -> calculate_skill_coverage(frame.skills)
    [] name = "experience" -> calculate_experience_quality(frame.text)

\* The arguments and the details of a call kept as attributes of the scorer.
on_the_scorer(t) == 0

\* Where a call keeps its arguments and its details dict: in local variables
\* (ats_scorer.py:41-46, 95-99, 147-151, 194-197), that is in the frame of its
\* thread; place 0 of the store is the scorer instance, whose __init__ sets
\* nothing (ats_scorer.py:32-33).
frame_of(t) == t

\* A thread: the request it works for and the analyzers it still has to call.
Thread(r, todo) == [request |-> r, todo |-> todo, at |-> "idle"]

\* n requests: each in a thread of its own that calls the four analyzers in turn,
\* or the first with a thread for each analyzer.  analyzed holds, for each
\* request, what the four analyzers return when called one after another.
InitConcurrent ==
  /\ resume_text = <<>>
  /\ skills = <<>>
  /\ job_description = None
  /\ hash_seed \in 1..HashSeeds
  /\ called = "none"
  /\ ret = <<>>
  /\ files = <<>>
  /\ session_state = InitialSessionState
  /\ db = DatabaseManager(FALSE)
  /\ ai = AIService(FALSE)
  /\ ui = InitialUI
  /\ pc = "idle"
  /\ \E n \in 1..MaxRequests, spread \in BOOLEAN :
       LET first == IF spread THEN [a \in 1..4 |-> Thread(1, <<AnalyzerNames[a]>>)]
                    ELSE <<Thread(1, AnalyzerNames)>>
           threads == first \o [r \in 1..(n - 1) |-> Thread(r + 1, AnalyzerNames)]
       IN  /\ running =
                [threads |-> threads,
                 store |-> [place \in 0..Len(threads) |-> <<>>],
                 results |-> [r \in 1..n |-> [name \in Range(AnalyzerNames) |-> <<>>]]]
           /\ analyzed =
                [r \in 1..n |->
                   RunAnalyzers(ConcurrentInput(r).text, ConcurrentInput(r).skills,
                                ConcurrentInput(r).jd, hash_seed)]

\* A thread enters the next analyzer of its request: the arguments are bound.
EnterAnalyzer ==
  /\ running # <<>>
  /\ \E t \in DOMAIN running.threads :
       LET thread == running.threads[t]
       IN  /\ thread.at = "idle"
           /\ thread.todo # <<>>
           /\ running' = [running EXCEPT
                            !.threads[t].at = "entered",
                            !.store[frame_of(t)] = <<ConcurrentInput(thread.request)>>]
  /\ UNCHANGED <<Scorer, session_state, db, ai, ui, pc>>

\* The analyzer computes from what it kept and returns.
ReturnAnalyzer ==
  /\ running # <<>>
  /\ \E t \in DOMAIN running.threads :
       LET thread == running.threads[t]
           name == Head(thread.todo)
           frame == running.store[frame_of(t)][1]
       IN  /\ thread.at = "entered"
           /\ running' = [running EXCEPT
                            !.threads[t].at = "idle",
                            !.threads[t].todo = Tail(@),
                            !.results[thread.request][name] =
                               <<call_analyzer(name, frame, hash_seed)>>]
  /\ UNCHANGED <<Scorer, session_state, db, ai, ui, pc>>

SpecConcurrent == InitConcurrent /\ [][EnterAnalyzer \/ ReturnAnalyzer]_vars

\* C25: no analyzer call has written to the scorer, and whatever calls of this
\* and of other requests ran in between, each analyzer returned what it returns
\* when the four are called one after another with the arguments of its
\* request, so that a request whose four analyzers have returned has the result
\* of calculate_ats_score.
C25_NoSharedState ==
  /\ running.store[0] = <<>>
  /\ \A r \in DOMAIN running.results :
       LET sequential == analyzed[r]
           returned == {name \in Range(AnalyzerNames) : running.results[r][name] # <<>>}
       IN  /\ \A name \in returned : running.results[r][name][1] = sequential[name]
           /\ returned = Range(AnalyzerNames) =>
                ATSResult([name \in Range(AnalyzerNames) |-> running.results[r][name][1]])
                  = ATSResult(sequential)

\* The first request's experience analyzer has returned before its keyword
\* analyzer, which was entered before the second request's and is still running
\* while the second request has two analyzers returned.
C25_Witness ==
  /\ Len(running.threads) = 5
  /\ running.results[1]["experience"] # <<>>
  /\ running.results[1]["keyword"] = <<>>
  /\ running.threads[1].at = "entered"
  /\ running.results[2]["formatting"] # <<>>
  /\ running.threads[5].at = "entered"
=============================================================================
